---- MODULE Spec2Model ----
(***************************************************************************)
(* Model of the conversation orchestration engine:                         *)
(*   - ConversationOrchestrator (the turn state machine: constructor,      *)
(*     executeTurn, run, updateEngagementScore, retrievePastMemories),     *)
(*   - EpisodicMemoryStore (the conversations and messages tables),        *)
(*   - CipherOrchestrator (the plugin registry, the fan-out of lifecycle   *)
(*     events to plugins, the context window),                             *)
(*   - EngagementTracker, TopicDetector, TopicSuggester and TopicManager,  *)
(*   - FlowManager (beat and mood of a message, pauses).                   *)
(* In the turn engine a message text is represented by its length, the     *)
(* only property of a text the engine itself reads; the analysers read     *)
(* texts as sequences of words.  Scores are exact fractions.               *)
(***************************************************************************)
EXTENDS Integers, Sequences, FiniteSets, TLC

VARIABLES
    config,     \* the OrchestratorConfig the engine was constructed with
    orch,       \* the mutable fields of the ConversationOrchestrator
    refOrch,    \* the same engine driven by the same generations, persistence never failing
    pc,         \* position of run(): "start", "loop", "returned", "raised"
    obs,        \* observations of the calls made to the collaborators
    horizon,    \* number of turns of the run the exploration follows
    store,      \* the tables of the EpisodicMemoryStore: conversations and messages
    plugins,    \* CipherOrchestrator.plugins, in Map iteration order
    regCount,   \* number of registerPlugin calls made so far
    events,     \* the events emitted so far, each with the state of its dispatch loop
    hubLog,     \* hook invocations and settlements, in the order they happen
    hubLimits,  \* number of registrations and of events the exploration follows
    ctx,        \* the hub's context-window configuration and summary, with the call explored
    topicMgr,   \* the TopicManager: thresholds and TopicGuidanceState, with the call explored
    tracker,    \* the EngagementTracker: configuration and message window, with the calls explored
    feed,       \* the messages handed to the TopicManager over a long run, and how
    probe,      \* one call of a function of the TopicDetector or TopicSuggester: input and result
    flowMgr     \* the FlowManager: configuration and FlowState, with the calls explored

vars == <<config, orch, refOrch, pc, obs, horizon, store, plugins, regCount, events, hubLog, hubLimits,
          ctx, topicMgr, tracker, feed, probe, flowMgr>>

engineVars == <<config, orch, refOrch, pc, obs, horizon, store>>
hubVars == <<plugins, regCount, events, hubLog, hubLimits>>
unitVars == <<ctx, topicMgr, tracker, feed, probe, flowMgr>>
advisorVars == <<feed, probe, flowMgr>>

-----------------------------------------------------------------------------
(* Bounds of the model *)

\* largest configured maxTurns
MaxTurnsCfg == 3

\* number of loop iterations after which the model stops following a run
MaxRunTurns == 5

\* the same for the long runs of infinite mode (SpecInf)
InfRunTurns == 12

\* number of failing store writes (saveMessage, updateConversation) of one run
\* the model follows
MaxWriteFaults == 1

-----------------------------------------------------------------------------
(* Program constants *)

AgentA == "alice"
AgentB == "bob"

\* executeTurn: memories are marked injected only while currentTurn < 3
EarlyTurnLimit == 3

\* buildContextInjection: the memory hint is emitted only while conversationTurn <= 3
HintTurnLimit == 3

\* updateEngagementScore: the window of recent messages
RecentWindow == 5

\* executeTurn: low engagement is logged after more than 10 consecutive low turns
LowEngagementTurns == 10

\* lengths of the texts the generation backend may answer with
TextLens == {5, 30}

Outcomes == {"ok", "fail"}

\* the hub is constructed with all of its dependencies, as the bootstrap does
HubDeps == [memoryStore |-> TRUE, engagementTracker |-> TRUE, flowManager |-> TRUE]
MemOutcomes == {"fail", "empty", "some"}

-----------------------------------------------------------------------------
(* ConversationOrchestrator *)

\* constructor: the initial ConversationState
InitialState ==
    [messages |-> <<>>, currentTurn |-> 0, currentAgentId |-> AgentA, isComplete |-> FALSE]

\* constructor: the initial fields of the orchestrator
NewOrchestrator ==
    [state |-> InitialState,
     conversationId |-> 0,                   \* 0 stands for undefined
     pastMemoriesInjected |-> FALSE,
     engagementScore |-> 1000,               \* in thousandths, rounded down
     consecutiveLowEngagementTurns |-> 0]

\* mutant: the speaker is not switched back to the first agent
NextAgentId_Stuck(cur) == IF cur = AgentA THEN AgentB ELSE AgentB

\* executeTurn: the speaker of the next turn
NextAgentId(cur) == IF cur = AgentA THEN AgentB ELSE AgentA

\* mutant: the completion rule compares with > instead of >=
CompletionReached_Strict(cfg, turn) == ~cfg.infiniteMode /\ turn > cfg.maxTurns

\* mutant: the completion rule forgets infinite mode
CompletionReached_IgnoresInfinite(cfg, turn) == turn >= cfg.maxTurns

\* executeTurn: the completion rule evaluated after a turn
CompletionReached(cfg, turn) == ~cfg.infiniteMode /\ turn >= cfg.maxTurns

\* mutant: the injected flag is not consulted before retrieving
ShouldRetrieve_IgnoresFlag(cfg, o) == cfg.usePastMemories

\* executeTurn: whether this turn queries for past memories at all
ShouldRetrieve(cfg, o) == cfg.usePastMemories /\ ~o.pastMemoriesInjected

\* whether the retrieval reads the persistence collaborator: through the hub
\* it is the hub's store that is read, otherwise the engine's
QueriesStore(cfg) == IF cfg.cipher THEN HubDeps.memoryStore ELSE cfg.memoryStore

\* retrievePastMemories / CipherOrchestrator.retrieveMemories: the number of
\* memories handed to executeTurn; a failing read is caught and yields none
RetrievedCount(cfg, mem) ==
    IF ~QueriesStore(cfg) THEN 0
    ELSE IF mem = "some" THEN 2 ELSE 0

\* mutant: the injected flag is set whenever memories were retrieved
ShouldMarkInjected_AnyTurn(n, turn) == n > 0

\* executeTurn: the condition under which the injected flag is set
ShouldMarkInjected(n, turn) == n > 0 /\ turn < EarlyTurnLimit

\* buildContextInjection: whether the per-turn context carries the memory hint
HasMemoryHint(n, conversationTurn) == n > 0 /\ conversationTurn <= HintTurnLimit

\* mutant: a failing saveMessage is not caught
SaveMessageTry_Uncaught(present, outcome) ==
    IF ~present THEN "skipped"
    ELSE IF outcome = "fail" THEN "threw" ELSE "done"

\* the try/catch around saveMessage: "done", "warned" or "threw"
SaveMessageTry(present, outcome) ==
    IF ~present THEN "skipped"
    ELSE IF outcome = "fail" THEN "warned" ELSE "done"

\* the try/catch around updateConversation and saveConversationState
UpdateConversationTry(present, outcome) ==
    IF ~present THEN "skipped"
    ELSE IF outcome = "fail" THEN "warned" ELSE "done"

\* run: the try/catch around createConversation; the resulting conversationId
CreateConversationTry(present, outcome) ==
    IF present /\ outcome = "ok" THEN 1 ELSE 0

-----------------------------------------------------------------------------
(* EpisodicMemoryStore: the conversations and messages tables *)

\* a database file just created by initializeSchema: both tables empty
NewStore == [conversations |-> <<>>, messages |-> <<>>]

\* createConversation: INSERT INTO conversations; the row id is the position
InsertConversation(st, agentAId, agentBId, maxTurns) ==
    [st EXCEPT !.conversations =
        Append(@, [id |-> Len(@) + 1, agentAId |-> agentAId, agentBId |-> agentBId,
                   maxTurns |-> maxTurns, totalTurns |-> 0,
                   isComplete |-> FALSE])]

\* updateConversation: UPDATE conversations SET total_turns, is_complete WHERE id
UpdateConversation(st, conversationId, totalTurns, isComplete) ==
    [st EXCEPT !.conversations =
        [i \in DOMAIN @ |->
            IF @[i].id = conversationId
            THEN [@[i] EXCEPT !.totalTurns = totalTurns, !.isComplete = isComplete]
            ELSE @[i]]]

\* saveMessage: INSERT INTO messages; the row id is the position
SaveMessage(st, message) ==
    [st EXCEPT !.messages =
        Append(@, [id |-> Len(@) + 1, conversationId |-> message.conversationId,
                   turnNumber |-> message.turnNumber, role |-> message.role,
                   len |-> message.len, agentId |-> message.agentId])]

\* WHERE conversation_id = ?
RECURSIVE RowsOf(_, _)
RowsOf(rows, conversationId) ==
    IF rows = <<>> THEN <<>>
    ELSE IF Head(rows).conversationId = conversationId
         THEN <<Head(rows)>> \o RowsOf(Tail(rows), conversationId)
         ELSE RowsOf(Tail(rows), conversationId)

\* ORDER BY turn_number ASC, id ASC: row a comes before row b
RowBefore(a, b) ==
    a.turnNumber < b.turnNumber \/ (a.turnNumber = b.turnNumber /\ a.id < b.id)

\* one row put at its place in an ordered list of rows
RECURSIVE InsertRow(_, _)
InsertRow(row, sorted) ==
    IF sorted = <<>> THEN <<row>>
    ELSE IF RowBefore(row, Head(sorted)) THEN <<row>> \o sorted
         ELSE <<Head(sorted)>> \o InsertRow(row, Tail(sorted))

RECURSIVE OrderRows(_)
OrderRows(rows) ==
    IF rows = <<>> THEN <<>> ELSE InsertRow(Head(rows), OrderRows(Tail(rows)))

\* getMessages: the rows of one conversation, ordered by turn number and row id
GetMessages(st, conversationId) == OrderRows(RowsOf(st.messages, conversationId))

\* getConversation: the row of the conversation, Undefined when there is none
GetConversation(st, conversationId) ==
    LET found == {i \in DOMAIN st.conversations : st.conversations[i].id = conversationId}
    IN  IF found = {} THEN <<>> ELSE <<st.conversations[CHOOSE i \in found : TRUE]>>

\* mutant: the join does not ask for a completed conversation
JoinsRequested_Any(st, row, agentAId, agentBId) ==
    \E i \in DOMAIN st.conversations : st.conversations[i].id = row.conversationId

\* getRelevantPastMessages: INNER JOIN conversations c ON m.conversation_id =
\* c.id WHERE (the agent pair, in either order) AND c.is_complete = 1
JoinsRequested(st, row, agentAId, agentBId) ==
    \E i \in DOMAIN st.conversations :
        /\ st.conversations[i].id = row.conversationId
        /\ \/ (st.conversations[i].agentAId = agentAId /\ st.conversations[i].agentBId = agentBId)
           \/ (st.conversations[i].agentAId = agentBId /\ st.conversations[i].agentBId = agentAId)
        /\ st.conversations[i].isComplete

\* the rows of the messages table the query selects, latest first (created_at
\* grows with the row id)
RECURSIVE SelectPast(_, _, _, _)
SelectPast(st, rows, agentAId, agentBId) ==
    IF rows = <<>> THEN <<>>
    ELSE SelectPast(st, Tail(rows), agentAId, agentBId)
         \o (IF JoinsRequested(st, Head(rows), agentAId, agentBId) THEN <<Head(rows)>> ELSE <<>>)

\* getRelevantPastMessages: ORDER BY m.created_at DESC LIMIT ?
GetRelevantPastMessages(st, agentAId, agentBId, limit) ==
    LET selected == SelectPast(st, st.messages, agentAId, agentBId)
    IN  IF Len(selected) <= limit THEN selected ELSE SubSeq(selected, 1, limit)

\* retrievePastMemories asks for the 5 most recent messages
PastMessagesLimit == 5

-----------------------------------------------------------------------------
(* ConversationOrchestrator: engagement and the turn *)

RECURSIVE SumLen(_)
SumLen(s) == IF s = <<>> THEN 0 ELSE Head(s).len + SumLen(Tail(s))

RECURSIVE SumSqDev(_, _, _)
\* sum over the messages of (n * len - total)^2
SumSqDev(s, n, total) ==
    IF s = <<>> THEN 0
    ELSE (n * Head(s).len - total) * (n * Head(s).len - total) + SumSqDev(Tail(s), n, total)

\* the last k elements of a sequence (Array.slice(-k))
LastK(s, k) == IF Len(s) <= k THEN s ELSE SubSeq(s, Len(s) - k + 1, Len(s))

\* updateEngagementScore: the score in thousandths (rounded down) for >= 2 messages
\*   lengthScore  = min(1, variance / 1000)
\*   topicScore   = 0.5 (no TopicManager)
\*   qualityScore = 1 for 20..200 chars, len/20 below, max(0, 1 - (len-200)/200) above
\*   score        = 0.3 * lengthScore + 0.4 * topicScore + 0.3 * qualityScore
EngagementOf(messages) ==
    LET recent == LastK(messages, RecentWindow)
        n      == Len(recent)
        total  == SumLen(recent)
        v      == SumSqDev(recent, n, total)      \* variance * n^3
        d1     == 1000 * n * n * n
        lsNum  == IF v < d1 THEN v ELSE d1        \* lengthScore * d1
        last   == messages[Len(messages)].len
        q2     == IF last >= 20 /\ last <= 200 THEN 600
                  ELSE IF last < 20 THEN 30 * last
                  ELSE IF 400 - last > 0 THEN 3 * (400 - last) ELSE 0   \* 600 * qualityScore
        den    == 20 * n * n * n
    IN (6 * lsNum + 200 * den + q2 * 10 * n * n * n) \div den

\* updateEngagementScore
UpdateEngagementScore(o) ==
    IF Len(o.state.messages) < 2
    THEN [o EXCEPT !.engagementScore = 1000]
    ELSE LET e == EngagementOf(o.state.messages)
         IN [o EXCEPT !.engagementScore = e,
                      !.consecutiveLowEngagementTurns =
                          IF e < 400 THEN o.consecutiveLowEngagementTurns + 1 ELSE 0]

\* executeTurn: the low-engagement branch of infinite mode only logs
LowEngagementLogged(o) ==
    o.engagementScore < 300 /\ o.consecutiveLowEngagementTurns > LowEngagementTurns

\* executeTurn, up to and including the generation call: the memory step
MemoryStep(cfg, o, mem) ==
    LET retrieve == ShouldRetrieve(cfg, o)
        n        == IF retrieve THEN RetrievedCount(cfg, mem) ELSE 0
    IN [o       |-> [o EXCEPT !.pastMemoriesInjected =
                        IF retrieve /\ ShouldMarkInjected(n, o.state.currentTurn)
                        THEN TRUE ELSE o.pastMemoriesInjected],
        queried |-> retrieve /\ QueriesStore(cfg),
        hint    |-> HasMemoryHint(n, o.state.currentTurn + 1)]

\* executeTurn: one turn.  gen, save, upd are the outcomes of the generation
\* call, saveMessage and updateConversation; mem is the outcome of the memory
\* read; len is the length of the generated text.  Yields the orchestrator
\* after the turn and whether executeTurn threw.
ExecuteTurn(cfg, o, gen, mem, len, save, upd) ==
    LET m       == MemoryStep(cfg, o, mem)
        o0      == m.o
        persist == cfg.memoryStore /\ o0.conversationId # 0
        cur     == o0.state.currentAgentId
        o1      == [o0 EXCEPT !.state.messages = Append(@, [agentId |-> cur, len |-> len])]
        r1      == SaveMessageTry(persist, save)
        o2      == [o1 EXCEPT !.state.currentTurn = @ + 1,
                              !.state.currentAgentId = NextAgentId(cur)]
        r2      == UpdateConversationTry(persist, upd)
        o3      == IF CompletionReached(cfg, o2.state.currentTurn)
                   THEN [o2 EXCEPT !.state.isComplete = TRUE] ELSE o2
        o4      == IF cfg.infiniteMode THEN UpdateEngagementScore(o3) ELSE o3
    IN  IF gen = "fail" THEN [o |-> o0, threw |-> TRUE, queried |-> m.queried, hint |-> m.hint]
        ELSE IF r1 = "threw" THEN [o |-> o1, threw |-> TRUE, queried |-> m.queried, hint |-> m.hint]
        ELSE IF r2 = "threw" THEN [o |-> o2, threw |-> TRUE, queried |-> m.queried, hint |-> m.hint]
        ELSE [o |-> o4, threw |-> FALSE, queried |-> m.queried, hint |-> m.hint]

\* mutant: the message is saved under the turn counter before its increment
SavedTurnNumber_Current(o) == o.state.currentTurn

\* executeTurn: the turn number a message is saved under
SavedTurnNumber(o) == o.state.currentTurn + 1

\* executeTurn: what a turn whose generation answered writes to the store;
\* a failing call throws before it writes and is caught
StoreAfterTurn(cfg, o, st, len, save, upd) ==
    LET persist == cfg.memoryStore /\ o.conversationId # 0
        st1 == IF persist /\ save = "ok"
               THEN SaveMessage(st, [conversationId |-> o.conversationId,
                                     turnNumber |-> SavedTurnNumber(o),
                                     role |-> "assistant", len |-> len,
                                     agentId |-> o.state.currentAgentId])
               ELSE st
    IN  IF persist /\ upd = "ok"
        THEN UpdateConversation(st1, o.conversationId, o.state.currentTurn + 1,
                                CompletionReached(cfg, o.state.currentTurn + 1))
        ELSE st1

\* run: createConversation with totalTurns 0, inside its try/catch
StoreAfterCreate(cfg, st, create) ==
    IF cfg.memoryStore /\ create = "ok" THEN InsertConversation(st, AgentA, AgentB, cfg.maxTurns) ELSE st

\* run: the conversation is finalized after the loop, inside its try/catch
StoreAfterFinalize(cfg, o, st, fin) ==
    IF cfg.memoryStore /\ o.conversationId # 0 /\ fin = "ok"
    THEN UpdateConversation(st, o.conversationId, o.state.currentTurn, TRUE)
    ELSE st

\* mutant: the loop swallows the error and tries the turn again
OnTurnError_Retry(o) == [o |-> o, pc |-> "loop"]

\* run: the catch block of the loop marks the conversation complete and rethrows
OnTurnError(o) == [o |-> [o EXCEPT !.state.isComplete = TRUE], pc |-> "raised"]

\* run: one iteration of the while loop
RunIteration(cfg, o, gen, mem, len, save, upd) ==
    LET t == ExecuteTurn(cfg, o, gen, mem, len, save, upd)
    IN  IF t.threw THEN OnTurnError(t.o) ELSE [o |-> t.o, pc |-> "loop"]

-----------------------------------------------------------------------------
(* The engine as a state machine *)

Configs ==
    [maxTurns : 0..MaxTurnsCfg, infiniteMode : BOOLEAN, usePastMemories : BOOLEAN,
     memoryStore : BOOLEAN, cipher : BOOLEAN]

\* an optional value: <<>> when undefined, <<v>> otherwise
Undefined == <<>>

Some(v) == <<v>>

\* a ?? b
OrElse(a, b) == IF a = Undefined THEN b ELSE a[1]

-----------------------------------------------------------------------------
(* The generation request of a turn *)

\* mutant: role assistant is given to the messages of the agent who spoke last
RoleOf_LastSpeaker(agentId, currentAgentId) ==
    IF agentId = currentAgentId THEN "user" ELSE "assistant"

\* buildMessagesForLLM: the role of a message from the current speaker's side
RoleOf(agentId, currentAgentId) ==
    IF agentId = currentAgentId THEN "assistant" ELSE "user"

\* buildMessagesForLLM: every message of the state, in order
BuildMessagesForLLM(state) ==
    [i \in 1..Len(state.messages) |->
        [role |-> RoleOf(state.messages[i].agentId, state.currentAgentId),
         kind |-> "history", len |-> state.messages[i].len, parts |-> <<>>]]

\* mutant: the setting is pushed on every turn
OpeningPart_Always(context) == <<"setting">>

\* buildContextInjection: the opening turn guidance
OpeningPart(context) == IF context.isOpening THEN <<"setting">> ELSE <<>>

\* buildContextInjection: the parts of the per-turn block ("setting": the
\* opening guidance, "topic": the topic guidance, "memory": the remembered
\* context), Undefined when there is none; context.flowContext is not read
BuildContextInjection(context) ==
    LET parts == OpeningPart(context)
                 \o (IF context.topicGuidance # Undefined THEN <<"topic">> ELSE <<>>)
                 \o (IF HasMemoryHint(context.retrievedMemories, context.conversationTurn)
                     THEN <<"memory">> ELSE <<>>)
    IN  IF Len(parts) > 0 THEN Some(parts) ELSE Undefined

\* executeTurn: the conversation context of the turn; retrievedMemories is the
\* number of memories retrieved
TurnContext(state, retrievedMemories, topicGuidance, flowContext) ==
    [conversationTurn |-> state.currentTurn + 1,
     isOpening |-> state.currentTurn = 0,
     retrievedMemories |-> retrievedMemories,
     topicGuidance |-> topicGuidance,
     flowContext |-> flowContext]

\* executeTurn: the messages handed to llmClient.generate
RequestMessages(state, retrievedMemories, topicGuidance, flowContext) ==
    LET contextInjection ==
            BuildContextInjection(TurnContext(state, retrievedMemories, topicGuidance,
                                              flowContext))
        conversationMessages ==
            BuildMessagesForLLM(state)
            \o (IF contextInjection # Undefined
                THEN <<[role |-> "user", kind |-> "context", len |-> 0,
                        parts |-> contextInjection[1]]>>
                ELSE <<>>)
    IN  IF state.currentTurn = 0 /\ Len(conversationMessages) = 0
        THEN <<[role |-> "user", kind |-> "starter", len |-> 0, parts |-> <<>>]>>
        ELSE conversationMessages

\* executeTurn: the number of memories retrieved by the turn
RetrievedMemories(cfg, o, mem) ==
    IF ShouldRetrieve(cfg, o) THEN RetrievedCount(cfg, mem) ELSE 0

\* the engine is constructed with an EngagementTracker, as the bootstrap does
EngineDeps == [engagementTracker |-> TRUE]

\* run and executeTurn: the calls to the hub made before the generation call;
\* the loop of run asks for the flow guidance and so does executeTurn
CallsBeforeGeneration(cfg, o) ==
    (IF cfg.cipher THEN <<"manageConversationFlow">> ELSE <<>>)
    \o (IF ~ShouldRetrieve(cfg, o) THEN <<>>
        ELSE IF cfg.cipher THEN <<"retrieveMemories">> ELSE <<"retrievePastMemories">>)
    \o (IF cfg.cipher THEN <<"manageConversationFlow">> ELSE <<>>)

\* mutant: the hub is told of the new state whatever became of the update
NotifiesStateChange_Always(cfg, persist, upd) == cfg.cipher

\* executeTurn: saveConversationState follows updateConversation inside the
\* same try block of the branch taken with a store and a conversation id
NotifiesStateChange(cfg, persist, upd) == cfg.cipher /\ persist /\ upd = "ok"

\* mutant: the message is tracked before the outcome of the generation is known
CallsAfterGeneration_TrackFirst(cfg, persist, gen, save, upd) ==
    IF gen = "fail" THEN <<"trackMessage">>
    ELSE <<"trackMessage", "saveMessage", "updateConversation">>

\* executeTurn: the calls to the tracker, the hub and the store made after the
\* generation call; a failing generation throws before any of them
CallsAfterGeneration(cfg, persist, gen, save, upd) ==
    IF gen = "fail" THEN <<>>
    ELSE (IF EngineDeps.engagementTracker THEN <<"trackMessage">> ELSE <<>>)
         \o (IF cfg.cipher THEN <<"evaluateConversationQuality", "logMessageGenerated">>
             ELSE IF EngineDeps.engagementTracker THEN <<"getMetrics", "shouldIntervene">>
             ELSE <<>>)
         \o (IF persist THEN <<"saveMessage">> ELSE <<>>)
         \o (IF persist THEN <<"updateConversation">> ELSE <<>>)
         \o (IF NotifiesStateChange(cfg, persist, upd) THEN <<"saveConversationState">>
             ELSE <<>>)

\* one iteration of the loop of run: the calls to the collaborators, in order
TurnCalls(cfg, o, gen, save, upd) ==
    CallsBeforeGeneration(cfg, o) \o <<"generate">>
    \o CallsAfterGeneration(cfg, cfg.memoryStore /\ o.conversationId # 0, gen, save, upd)

\* the hook a call to the hub dispatches to the plugins: retrieveMemories
\* notifies after a read that succeeded, saveConversationState for a hub with
\* a store and a context with a conversation id; Undefined when none
HookOf(call, o, mem) ==
    IF call = "retrieveMemories"
    THEN IF HubDeps.memoryStore /\ mem # "fail" THEN Some("onMemoryRetrieved") ELSE Undefined
    ELSE IF call = "manageConversationFlow"
    THEN IF HubDeps.flowManager THEN Some("onFlowManaged") ELSE Undefined
    ELSE IF call = "evaluateConversationQuality"
    THEN IF HubDeps.engagementTracker THEN Some("onQualityEvaluated") ELSE Undefined
    ELSE IF call = "logMessageGenerated" THEN Some("onMessageGenerated")
    ELSE IF call = "saveConversationState"
    THEN IF HubDeps.memoryStore /\ o.conversationId # 0
         THEN Some("onConversationStateChanged") ELSE Undefined
    ELSE Undefined

\* the hooks dispatched by the calls of one turn, in order
RECURSIVE TurnHooks(_, _, _)
TurnHooks(calls, o, mem) ==
    IF calls = <<>> THEN <<>>
    ELSE HookOf(Head(calls), o, mem) \o TurnHooks(Tail(calls), o, mem)

-----------------------------------------------------------------------------
(* The engine as a state machine: constructors of the collaborators, actions *)

\* CipherOrchestrator constructor: the defaults of the context-window settings
DefaultMaxContextMessages == 25

NewCipherConfig(given) ==
    [maxContextMessages |-> OrElse(given.maxContextMessages, DefaultMaxContextMessages),
     enableContextSummarization |-> OrElse(given.enableContextSummarization, TRUE)]

\* the hub after construction, no context window managed yet
NewContext(given, input) ==
    [config |-> NewCipherConfig(given), conversationSummary |-> Undefined,
     input |-> input, output |-> <<>>, called |-> FALSE]

\* the components as the bootstrap constructs them, no call made
IdleContext ==
    NewContext([maxContextMessages |-> Some(25), enableContextSummarization |-> Some(TRUE)], <<>>)

\* TopicManager constructor, with the observation of the calls explored
NewTopicManager(lullThreshold, minMessageLength) ==
    [lullThreshold |-> lullThreshold, minMessageLength |-> minMessageLength,
     conversationHistory |-> <<>>, currentTopics |-> <<>>, topicSwitches |-> <<>>,
     suggestions |-> <<>>, lullDetected |-> FALSE, lastActiveTurn |-> Undefined,
     calls |-> 0, result |-> Undefined, lull |-> Undefined]

IdleTopicManager == NewTopicManager(3, 20)

\* EngagementTracker constructor: the defaults of the configuration
DefaultWindowSize == 10

DefaultMinMessageLength == 20

DefaultMaxMessageLength == 200

\* 0.4
DefaultLowThreshold == [n |-> 2, d |-> 5]

\* 0.7
DefaultHighThreshold == [n |-> 7, d |-> 10]

\* EngagementTracker constructor, with the observation of the calls explored:
\* tracked is every message tracked since construction or reset, detection
\* the topics detected in the last one, last the result of the last query
NewEngagementTracker(given) ==
    [config |-> [windowSize |-> OrElse(given.windowSize, DefaultWindowSize),
                 minMessageLength |-> OrElse(given.minMessageLength, DefaultMinMessageLength),
                 maxMessageLength |-> OrElse(given.maxMessageLength, DefaultMaxMessageLength),
                 lowEngagementThreshold |-> OrElse(given.lowEngagementThreshold, DefaultLowThreshold),
                 highEngagementThreshold |-> OrElse(given.highEngagementThreshold, DefaultHighThreshold)],
     messageHistory |-> <<>>, tracked |-> <<>>, detection |-> Undefined, last |-> Undefined]

IdleTracker ==
    NewEngagementTracker([windowSize |-> Some(10), minMessageLength |-> Some(20),
                          maxMessageLength |-> Some(200),
                          lowEngagementThreshold |-> Some(DefaultLowThreshold),
                          highEngagementThreshold |-> Some(DefaultHighThreshold)])

\* a long run of analyzeMessage calls: the texts the messages cycle through,
\* the topics matching the interests of the agents, who makes the calls
\* ("calls": a caller of analyzeMessage, "engine": executeTurn, "hub":
\* executeTurn of an engine that retrieves memories through the hub), the
\* number of calls or turns made, every analyzed message so far and what the
\* analysis made for the guidance of the last turn gave
NewFeed(cycle, relevant, mode) ==
    [cycle |-> cycle, relevant |-> relevant, mode |-> mode, turns |-> 0, analyzed |-> <<>>,
     guided |-> Undefined]

IdleFeed == NewFeed(<<>>, {}, "idle")

\* FlowManager constructor: the defaults of the pause settings
DefaultMinPauseMs == 500

DefaultMaxPauseMs == 2000

\* FlowManager constructor, with the observation of the calls explored: now
\* is the reading of the clock since construction, calls and pauses the
\* numbers of analyzeMessage and shouldPause calls made, analyzed the last
\* message analyzed, last the result of the last shouldPause
NewFlowManager(given) ==
    [config |-> [enablePauses |-> OrElse(given.enablePauses, TRUE),
                 minPauseMs |-> OrElse(given.minPauseMs, DefaultMinPauseMs),
                 maxPauseMs |-> OrElse(given.maxPauseMs, DefaultMaxPauseMs)],
     state |-> [currentBeat |-> "unknown", mood |-> "neutral",
                rhythm |-> [averageResponseTime |-> [n |-> 0, d |-> 1], lastResponseTime |-> 0,
                            pauseCount |-> 0],
                recentBeats |-> <<>>,
                emotionalFlow |-> [intensity |-> [n |-> 1, d |-> 2], direction |-> "stable"]],
     now |-> 0, calls |-> 0, pauses |-> 0, analyzed |-> Undefined, last |-> Undefined]

IdleFlow ==
    NewFlowManager([enablePauses |-> Undefined, minPauseMs |-> Undefined,
                    maxPauseMs |-> Undefined])

\* no long run of the TopicManager, no function call and no FlowManager call explored
AdvisorIdle ==
    /\ feed = IdleFeed
    /\ probe = Undefined
    /\ flowMgr = IdleFlow

UnitIdle ==
    /\ ctx = IdleContext
    /\ topicMgr = IdleTopicManager
    /\ tracker = IdleTracker
    /\ AdvisorIdle

\* genCalls: generation calls made; genFailed: a generation call failed;
\* memQueries: reads of past memories made; hintTurns: the turns whose prompt
\* carried the memory hint; persistFailed: a persistence call failed;
\* writeFaults: the number of saveMessage and updateConversation calls that failed;
\* request: the messages of the last generation request (the engines of these
\* runs have no TopicManager and no FlowManager: no topic guidance, no flow context);
\* of the last turn, retrieved: the number of memories retrieved, calls: the
\* calls made to the collaborators, hooks: the hooks the hub dispatched,
\* updateFailed: updateConversation threw
InitObs ==
    [genCalls |-> 0, genFailed |-> FALSE, memQueries |-> 0, hintTurns |-> {},
     persistFailed |-> FALSE, writeFaults |-> 0, request |-> Undefined,
     retrieved |-> 0, calls |-> <<>>, hooks |-> <<>>, updateFailed |-> FALSE]

InitHub ==
    /\ UnitIdle
    /\ plugins = <<>>
    /\ regCount = 0
    /\ events = <<>>
    /\ hubLog = <<>>
    /\ hubLimits = [regs |-> 0, events |-> 0]

InitEngine ==
    /\ config \in {c \in Configs : c.infiniteMode => c.maxTurns = MaxTurnsCfg}
    /\ orch = NewOrchestrator
    /\ refOrch = NewOrchestrator
    /\ pc = "start"
    /\ obs = InitObs
    /\ horizon = MaxRunTurns
    /\ store = NewStore

\* long runs in infinite mode, for engines without memory reuse
InitInf ==
    /\ config \in {c \in Configs : c.infiniteMode /\ c.maxTurns = MaxTurnsCfg
                                   /\ ~c.usePastMemories /\ ~c.cipher}
    /\ orch = NewOrchestrator
    /\ refOrch = NewOrchestrator
    /\ pc = "start"
    /\ obs = [InitObs EXCEPT !.writeFaults = MaxWriteFaults]   \* no failing write is followed
    /\ horizon = InfRunTurns
    /\ store = NewStore
    /\ InitHub

\* run(), up to the while loop: createConversation
RunStart ==
    /\ pc = "start"
    /\ \E create \in (IF config.memoryStore THEN Outcomes ELSE {"ok"}) :
        /\ orch' = [orch EXCEPT !.conversationId = CreateConversationTry(config.memoryStore, create)]
        /\ refOrch' = [refOrch EXCEPT !.conversationId = CreateConversationTry(config.memoryStore, "ok")]
        /\ obs' = [obs EXCEPT !.persistFailed = @ \/ (config.memoryStore /\ create = "fail")]
        /\ store' = StoreAfterCreate(config, store, create)
    /\ pc' = "loop"
    /\ UNCHANGED <<config, horizon, hubVars, unitVars>>

\* the outcomes a persistence write of this turn can have (one when no write is made)
WriteOutcomes(cfg, o) ==
    IF cfg.memoryStore /\ o.conversationId # 0 THEN Outcomes ELSE {"ok"}

\* the outcomes followed once the given number of writes of the run have failed
Followed(outcomes, faults) ==
    IF faults < MaxWriteFaults THEN outcomes ELSE outcomes \ {"fail"}

\* 1 for a failed call
Fault(outcome) == IF outcome = "fail" THEN 1 ELSE 0

\* the outcomes the memory read of this turn can have (one when no read is made)
ReadOutcomes(cfg, o) ==
    IF ShouldRetrieve(cfg, o) /\ QueriesStore(cfg) THEN MemOutcomes ELSE {"empty"}

\* the reference engine's memory read never fails: it returns what the store holds
RefMem(mem) == IF mem = "fail" THEN {"empty", "some"} ELSE {mem}

\* run(): one iteration of the loop whose generation call answers
TurnOK ==
    /\ pc = "loop"
    /\ ~orch.state.isComplete
    /\ orch.state.currentTurn < horizon
    /\ \E mem \in ReadOutcomes(config, orch), len \in TextLens,
          save \in Followed(WriteOutcomes(config, orch), obs.writeFaults),
          upd \in WriteOutcomes(config, orch) :
        /\ upd \in Followed(WriteOutcomes(config, orch), obs.writeFaults + Fault(save))
        /\ LET r == RunIteration(config, orch, "ok", mem, len, save, upd)
               t == ExecuteTurn(config, orch, "ok", mem, len, save, upd)
           IN
            /\ orch' = r.o
            /\ pc' = r.pc
            /\ \E rm \in RefMem(mem) :
                 refOrch' = RunIteration(config, refOrch, "ok", rm, len, "ok", "ok").o
            /\ store' = StoreAfterTurn(config, MemoryStep(config, orch, mem).o, store,
                                       len, save, upd)
            /\ obs' = [obs EXCEPT !.genCalls = @ + 1,
                                  !.persistFailed = @ \/ "fail" \in {mem, save, upd},
                                  !.writeFaults = @ + Fault(save) + Fault(upd),
                                  !.retrieved = RetrievedMemories(config, orch, mem),
                                  !.calls = TurnCalls(config, orch, "ok", save, upd),
                                  !.hooks = TurnHooks(TurnCalls(config, orch, "ok", save, upd),
                                                      orch, mem),
                                  !.updateFailed = WriteOutcomes(config, orch) = Outcomes
                                                   /\ upd = "fail",
                                  !.request = Some(RequestMessages(orch.state,
                                                  RetrievedMemories(config, orch, mem),
                                                  Undefined, Undefined)),
                                  !.memQueries = IF t.queried THEN @ + 1 ELSE @,
                                  !.hintTurns = IF t.hint THEN @ \cup {orch.state.currentTurn + 1} ELSE @]
    /\ UNCHANGED <<config, horizon, hubVars, unitVars>>

\* run(): the iteration whose generation call fails
TurnFail ==
    /\ pc = "loop"
    /\ ~orch.state.isComplete
    /\ orch.state.currentTurn < horizon
    /\ \E mem \in ReadOutcomes(config, orch) :
        LET r == RunIteration(config, orch, "fail", mem, 0, "ok", "ok")
            t == ExecuteTurn(config, orch, "fail", mem, 0, "ok", "ok")
        IN  /\ orch' = r.o
            /\ pc' = r.pc
            /\ \E rm \in RefMem(mem) :
                 refOrch' = RunIteration(config, refOrch, "fail", rm, 0, "ok", "ok").o
            /\ obs' = [obs EXCEPT !.genCalls = @ + 1,
                                  !.genFailed = TRUE,
                                  !.retrieved = RetrievedMemories(config, orch, mem),
                                  !.calls = TurnCalls(config, orch, "fail", "ok", "ok"),
                                  !.hooks = TurnHooks(TurnCalls(config, orch, "fail", "ok", "ok"),
                                                      orch, mem),
                                  !.updateFailed = FALSE,
                                  !.request = Some(RequestMessages(orch.state,
                                                  RetrievedMemories(config, orch, mem),
                                                  Undefined, Undefined)),
                                  !.persistFailed = @ \/ mem = "fail",
                                  !.memQueries = IF t.queried THEN @ + 1 ELSE @,
                                  !.hintTurns = IF t.hint THEN @ \cup {orch.state.currentTurn + 1} ELSE @]
    /\ UNCHANGED <<config, horizon, store, hubVars, unitVars>>

\* run(): the loop has ended; the conversation is finalized and the state returned
RunFinish ==
    /\ pc = "loop"
    /\ orch.state.isComplete
    /\ pc' = "returned"
    /\ \E fin \in Followed(WriteOutcomes(config, orch), obs.writeFaults) :
        /\ store' = StoreAfterFinalize(config, orch, store, fin)
        /\ obs' = [obs EXCEPT !.persistFailed = @ \/ fin = "fail",
                              !.writeFaults = @ + Fault(fin)]
    /\ UNCHANGED <<config, orch, refOrch, horizon, hubVars, unitVars>>

Next == RunStart \/ TurnOK \/ TurnFail \/ RunFinish

Init == InitEngine /\ InitHub

Spec == Init /\ [][Next]_vars

\* in infinite mode the loop of run() is left only through the catch block
NextInf == RunStart \/ TurnOK \/ TurnFail

SpecInf == InitInf /\ [][NextInf]_vars

\* bounded runs (infinite mode off, maxTurns >= 1) whose generation backend
\* always answers; the loop of run() is sequential code that keeps going
InitLive ==
    /\ config \in {c \in Configs : ~c.infiniteMode /\ c.maxTurns >= 1}
    /\ orch = NewOrchestrator
    /\ refOrch = NewOrchestrator
    /\ pc = "start"
    /\ obs = InitObs
    /\ horizon = MaxRunTurns
    /\ store = NewStore
    /\ InitHub

NextLive == RunStart \/ TurnOK \/ RunFinish

SpecLive == InitLive /\ [][NextLive]_vars /\ WF_vars(NextLive)

-----------------------------------------------------------------------------
(* CipherOrchestrator: the plugin registry and the dispatch of events *)

\* bounds of the hub explorations: registerPlugin calls and emitted events
HubRegs == 2
HubEvents == 2
RegRegs == 3
RegEvents == 1

\* OrchestrationPlugin: the lifecycle hooks dispatched by the hub
Hooks ==
    {"onMessageGenerated", "onContextSummarized", "onQualityEvaluated",
     "onConversationStateChanged", "onMemoryRetrieved", "onFlowManaged", "cleanup"}

PluginNames == {"p", "q"}

\* what a plugin's hooks do when invoked: return a promise that resolves,
\* return a promise that rejects, or throw before returning a promise
HookModes == {"ok", "reject", "throw"}

\* the dispatch code that serves a hook: notifyPlugins, the loop of
\* saveConversationState, or the loop of cleanup
PathOf(method) ==
    IF method = "onConversationStateChanged" THEN "state"
    ELSE IF method = "cleanup" THEN "cleanup" ELSE "notify"

\* the callers of notifyPlugins do not await it; saveConversationState and
\* cleanup are async functions their callers await
CallerAwaits(path) == path # "notify"

\* mutant: a registration is always appended, the name being no key
MapSet_Append(ps, p) == Append(ps, p)

\* registerPlugin: Map.set keeps the position of a key that is already present
MapSet(ps, p) ==
    IF \E i \in 1..Len(ps) : ps[i].name = p.name
    THEN [i \in 1..Len(ps) |-> IF ps[i].name = p.name THEN p ELSE ps[i]]
    ELSE Append(ps, p)

\* getPlugin
GetPlugin(ps, name) == {ps[i] : i \in {j \in 1..Len(ps) : ps[j].name = name}}

\* mutant: the hook's promise is not awaited before the next plugin is visited
AwaitsHook_Missing(path) == FALSE

\* every dispatch loop awaits the promise a hook returns
AwaitsHook(path) == TRUE

\* whether a hook that throws before returning a promise is caught per
\* plugin: notifyPlugins and cleanup wrap the call in try/catch; the loop of
\* saveConversationState only attaches .catch to the returned promise, so
\* the throw reaches the try/catch around the whole loop
CatchesSyncThrow(path) == path # "state"

LogEntry(e, p, i, what) == [ev |-> e, pid |-> p.id, idx |-> i, what |-> what]

RECURSIVE RunLoop(_, _, _, _, _)
\* the dispatch loop of event e (hook method) from position i of the plugin
\* map, up to its next await or its end
RunLoop(ps, e, method, i, log) ==
    IF i > Len(ps)
    THEN [log |-> log, status |-> "done", idx |-> i, pid |-> 0]
    ELSE IF method \notin ps[i].hooks
    THEN RunLoop(ps, e, method, i + 1, log)
    ELSE LET invoked == Append(log, LogEntry(e, ps[i], i, "invoke"))
             settled == Append(invoked, LogEntry(e, ps[i], i, "settle"))
         IN  IF ps[i].mode = "throw"
             THEN IF CatchesSyncThrow(PathOf(method))
                  THEN RunLoop(ps, e, method, i + 1, settled)
                  ELSE [log |-> settled, status |-> "done", idx |-> i, pid |-> 0]
             ELSE IF AwaitsHook(PathOf(method))
                  THEN [log |-> invoked, status |-> "pending", idx |-> i, pid |-> ps[i].id]
                  ELSE RunLoop(ps, e, method, i + 1, invoked)

\* a dispatch whose caller is suspended until it ends
AwaitedPending ==
    \E e \in 1..Len(events) : events[e].status = "pending" /\ CallerAwaits(PathOf(events[e].method))

\* mutant: the promise of initialize is awaited before registerPlugin returns
StartInitialize_Awaited(p) ==
    IF "initialize" \in DOMAIN p
    THEN [p EXCEPT !.initialized = IF p.initialize = "ok" THEN "resolved" ELSE "rejected"]
    ELSE p

\* registerPlugin: if (plugin.initialize) plugin.initialize().catch(...), the
\* promise being left pending
StartInitialize(p) ==
    IF "initialize" \in DOMAIN p THEN [p EXCEPT !.initialized = "pending"] ELSE p

\* registerPlugin
Register(p) ==
    /\ regCount < hubLimits.regs
    /\ regCount' = regCount + 1
    /\ plugins' = MapSet(plugins, StartInitialize([p EXCEPT !.id = regCount + 1]))
    /\ UNCHANGED <<events, hubLog, hubLimits, engineVars, unitVars>>

\* notifyPlugins is called: the dispatch loop of a new event runs to its first await
Dispatch(method) ==
    LET e == Len(events) + 1
        r == RunLoop(plugins, e, method, 1, hubLog)
    IN  /\ events' = Append(events, [method |-> method, regs |-> regCount,
                                      status |-> r.status, idx |-> r.idx, pid |-> r.pid])
        /\ hubLog' = r.log

\* a hub operation that dispatches hook method
Emit(method) ==
    /\ Len(events) < hubLimits.events
    /\ ~AwaitedPending
    /\ Dispatch(method)
    /\ UNCHANGED <<plugins, regCount, hubLimits, engineVars, unitVars>>

\* summarizeContext
SummarizeContext == Emit("onContextSummarized")

\* evaluateConversationQuality
EvaluateConversationQuality == HubDeps.engagementTracker /\ Emit("onQualityEvaluated")

\* manageConversationFlow
ManageConversationFlow == HubDeps.flowManager /\ Emit("onFlowManaged")

\* retrieveMemories, the read of the weighted memories succeeding
RetrieveMemories == HubDeps.memoryStore /\ Emit("onMemoryRetrieved")

\* logMessageGenerated
LogMessageGenerated == Emit("onMessageGenerated")

\* saveConversationState, for a context that carries a conversation id
SaveConversationState == HubDeps.memoryStore /\ Emit("onConversationStateChanged")

\* cleanup
Cleanup == Emit("cleanup")

\* the promise of a pending hook settles and its dispatch loop resumes
HookSettles ==
    \E e \in 1..Len(events) :
        /\ events[e].status = "pending"
        /\ LET ev      == events[e]
               settled == Append(hubLog, [ev |-> e, pid |-> ev.pid, idx |-> ev.idx, what |-> "settle"])
               r       == RunLoop(plugins, e, ev.method, ev.idx + 1, settled)
           IN  /\ events' = [events EXCEPT ![e] = [ev EXCEPT !.status = r.status,
                                                             !.idx = r.idx, !.pid = r.pid]]
               /\ hubLog' = r.log
        /\ UNCHANGED <<plugins, regCount, hubLimits, engineVars, unitVars>>

\* the plugins registered in the explorations
PluginsAny ==
    [name : PluginNames, id : {0}, hooks : {Hooks, {"onMessageGenerated"}}, mode : HookModes]

PluginsFull ==
    [name : PluginNames, id : {0}, hooks : {Hooks}, mode : HookModes]

RegisterPlugin == \E p \in PluginsAny : Register(p)

RegisterFullPlugin == \E p \in PluginsFull : Register(p)

HubOps ==
    \/ SummarizeContext
    \/ EvaluateConversationQuality
    \/ ManageConversationFlow
    \/ RetrieveMemories
    \/ LogMessageGenerated
    \/ SaveConversationState
    \/ Cleanup
    \/ HookSettles

\* the engine the hub belongs to, constructed and not yet run
HubEngine ==
    /\ UnitIdle
    /\ config = [maxTurns |-> MaxTurnsCfg, infiniteMode |-> FALSE, usePastMemories |-> TRUE,
                 memoryStore |-> TRUE, cipher |-> TRUE]
    /\ orch = NewOrchestrator
    /\ refOrch = NewOrchestrator
    /\ pc = "start"
    /\ obs = InitObs
    /\ horizon = 0
    /\ store = NewStore

InitHubAny ==
    /\ HubEngine
    /\ plugins = <<>>
    /\ regCount = 0
    /\ events = <<>>
    /\ hubLog = <<>>
    /\ hubLimits = [regs |-> HubRegs, events |-> HubEvents]

InitHubReg ==
    /\ HubEngine
    /\ plugins = <<>>
    /\ regCount = 0
    /\ events = <<>>
    /\ hubLog = <<>>
    /\ hubLimits = [regs |-> RegRegs, events |-> RegEvents]

NextHub == RegisterPlugin \/ HubOps

NextReg == RegisterFullPlugin \/ HubOps

\* the hub with any plugins, two events in flight
SpecHub == InitHubAny /\ [][NextHub]_vars

\* the hub with re-registrations, one event
SpecReg == InitHubReg /\ [][NextReg]_vars

\* bounds of the explorations of plugins with an initialize method
InitRegs == 2
InitEvents == 1

\* plugins with an initialize method whose promise resolves or rejects
PluginsInit ==
    [name : PluginNames, id : {0}, hooks : {Hooks}, mode : {"ok"},
     initialize : {"ok", "reject"}, initialized : {"no"}]

RegisterInitPlugin == \E p \in PluginsInit : Register(p)

\* the promise of a plugin's initialize settles; the handler attached by
\* registerPlugin logs a rejection and does nothing else
InitializeSettles ==
    \E i \in 1..Len(plugins) :
        /\ plugins[i].initialized = "pending"
        /\ plugins' = [plugins EXCEPT ![i].initialized =
                           IF plugins[i].initialize = "ok" THEN "resolved" ELSE "rejected"]
        /\ hubLog' = IF plugins[i].initialize = "ok" THEN hubLog
                     ELSE Append(hubLog, [ev |-> 0, pid |-> plugins[i].id, idx |-> i,
                                          what |-> "initialization failed"])
        /\ UNCHANGED <<regCount, events, hubLimits, engineVars, unitVars>>

InitHubInit ==
    /\ HubEngine
    /\ plugins = <<>>
    /\ regCount = 0
    /\ events = <<>>
    /\ hubLog = <<>>
    /\ hubLimits = [regs |-> InitRegs, events |-> InitEvents]

\* one hub operation for each of the dispatch loops
NextInit ==
    \/ RegisterInitPlugin
    \/ InitializeSettles
    \/ LogMessageGenerated
    \/ SaveConversationState
    \/ Cleanup
    \/ HookSettles

\* the hub with plugins that have an initialize method
SpecInit == InitHubInit /\ [][NextInit]_vars

-----------------------------------------------------------------------------
(* The context window of the hub *)

\* largest explicitly configured maxContextMessages
MaxCap == 4

\* longest message list handed to manageContextWindow, the scenario of 30
\* messages apart
MaxCtxMsgs == 6

\* the message list of the truncation scenario
ScenarioMsgs == 30

\* agentId of the entry manageContextWindow prepends
SummaryAgent == "cipher"

\* Array.prototype.slice(-k) for k > 0
LastOf(seq, k) == IF k >= Len(seq) THEN seq ELSE SubSeq(seq, Len(seq) - k + 1, Len(seq))

\* Array.prototype.slice(0, k)
FirstOf(seq, k) == IF k >= Len(seq) THEN seq ELSE SubSeq(seq, 1, k)

\* the n messages of a conversation, each text standing for itself
CtxMessages(n) ==
    [i \in 1..n |-> [content |-> <<i>>,
                     agentId |-> IF i % 2 = 1 THEN AgentA ELSE AgentB,
                     role |-> IF i % 2 = 1 THEN "assistant" ELSE "user"]]

\* the text summarizeContext builds: the previews of the first two and of the
\* last two messages ("Started with: ... . Ended with: ..."), never empty for
\* a non-empty list; the frequent words are not represented
ContextSummary(messages) ==
    IF Len(messages) = 0 THEN Undefined
    ELSE LET firstMessages == FirstOf(messages, 2)
             lastMessages  == LastOf(messages, 2)
             preview(ms)   == [i \in 1..Len(ms) |-> ms[i].content[1]]
         IN  Some(preview(firstMessages) \o preview(lastMessages))

\* manageContextWindow: the list returned and the summary computed, if any
ManagedWindow(cfg, messages) ==
    IF cfg.maxContextMessages = 0 \/ Len(messages) <= cfg.maxContextMessages
    THEN [output |-> messages, summary |-> Undefined]
    ELSE LET recentMessages == LastOf(messages, cfg.maxContextMessages)
             olderMessages  == FirstOf(messages, Len(messages) - cfg.maxContextMessages)
             summary == IF cfg.enableContextSummarization /\ Len(olderMessages) > 0
                        THEN ContextSummary(olderMessages)
                        ELSE Undefined
         IN  IF summary # Undefined /\ summary[1] # <<>>
             THEN [output |-> <<[content |-> <<0>> \o summary[1],
                                agentId |-> SummaryAgent, role |-> "user"]>> \o recentMessages,
                   summary |-> summary]
             ELSE [output |-> recentMessages, summary |-> summary]

\* manageContextWindow, with the summarizeContext call it makes
ManageContextWindow ==
    /\ ~ctx.called
    /\ LET r == ManagedWindow(ctx.config, ctx.input)
       IN  /\ ctx' = [ctx EXCEPT !.output = r.output, !.called = TRUE,
                                 !.conversationSummary = IF r.summary = Undefined THEN @ ELSE r.summary]
           /\ IF r.summary = Undefined
              THEN UNCHANGED <<events, hubLog>>
              ELSE Len(events) < hubLimits.events /\ Dispatch("onContextSummarized")
    /\ UNCHANGED <<plugins, regCount, hubLimits, engineVars, topicMgr, tracker, advisorVars>>

\* the hub constructed with any context-window settings, and any message list
InitCtx ==
    /\ config = [maxTurns |-> MaxTurnsCfg, infiniteMode |-> FALSE, usePastMemories |-> TRUE,
                 memoryStore |-> TRUE, cipher |-> TRUE]
    /\ orch = NewOrchestrator
    /\ refOrch = NewOrchestrator
    /\ pc = "start"
    /\ obs = InitObs
    /\ horizon = 0
    /\ store = NewStore
    /\ plugins = <<>>
    /\ regCount = 0
    /\ events = <<>>
    /\ hubLog = <<>>
    /\ hubLimits = [regs |-> 0, events |-> 1]
    /\ topicMgr = IdleTopicManager
    /\ tracker = IdleTracker
    /\ AdvisorIdle
    /\ \E cap \in {Undefined} \cup {Some(c) : c \in 0..MaxCap},
          sum \in {Undefined, Some(TRUE), Some(FALSE)},
          n \in 0..MaxCtxMsgs \cup {ScenarioMsgs} :
            /\ n = ScenarioMsgs => cap = Undefined
            /\ ctx = NewContext([maxContextMessages |-> cap, enableContextSummarization |-> sum],
                                CtxMessages(n))

NextCtx == ManageContextWindow

SpecCtx == InitCtx /\ [][NextCtx]_vars

-----------------------------------------------------------------------------
(* Message texts and scores *)

\* A text is the sequence of its words, single spaces between them; <<>> is
\* the empty string.

\* String.prototype.toLowerCase on the words of the texts used
ToLower(w) == IF w = "OK" THEN "ok" ELSE w

RECURSIVE SumOfLengths(_)
SumOfLengths(text) ==
    IF text = <<>> THEN 0 ELSE Len(Head(text)) + SumOfLengths(Tail(text))

\* String.prototype.length
TextLength(text) == IF text = <<>> THEN 0 ELSE SumOfLengths(text) + Len(text) - 1

\* text.toLowerCase().split(/\s+/): the empty string gives one empty word
SplitWords(text) == IF text = <<>> THEN <<"">> ELSE [i \in 1..Len(text) |-> ToLower(text[i])]

\* new Set(text.toLowerCase().split(/\s+/))
WordSet(text) == IF text = <<>> THEN {""} ELSE {ToLower(text[i]) : i \in 1..Len(text)}

\* F applied to the value of v, v being evaluated once
With(v, F(_)) == CHOOSE r \in {F(x) : x \in {v}} : TRUE

RECURSIVE GCD(_, _)
GCD(a, b) == IF b = 0 THEN a ELSE GCD(b, a % b)

\* scores are exact fractions n/d with d > 0, in lowest terms
Rat(n, d) == LET g == GCD(IF n < 0 THEN -n ELSE n, d) IN [n |-> n \div g, d |-> d \div g]

RatAdd(a, b) == Rat(a.n * b.d + b.n * a.d, a.d * b.d)

RatSub(a, b) == Rat(a.n * b.d - b.n * a.d, a.d * b.d)

RatMul(a, b) == Rat(a.n * b.n, a.d * b.d)

\* a / k for an integer k > 0
RatDiv(a, k) == Rat(a.n, a.d * k)

RatLess(a, b) == a.n * b.d < b.n * a.d

RatMin(a, b) == IF RatLess(b, a) THEN b ELSE a

RatMax(a, b) == IF RatLess(a, b) THEN b ELSE a

RECURSIVE RatSum(_)
RatSum(rs) == IF rs = <<>> THEN Rat(0, 1) ELSE RatAdd(Head(rs), RatSum(Tail(rs)))

\* the texts the explorations draw messages from
ShortOk == <<"ok">>

ShortOkUpper == <<"OK">>

\* 15 characters
Short15 == <<"ok", "conversation">>

\* 28 characters, the words of Short15
LongTalk == <<"conversation", "conversation", "ok">>

\* 10 characters, keywords of three topics
FoodMusic == <<"food", "music">>

\* 24 words of which one is a keyword
Rambling == <<"food">> \o [i \in 1..23 |-> "ok"]

\* 5 characters, dominant topic hobbies
Music == <<"music">>

\* 9 characters, dominant topic travel
Travel == <<"travel", "ok">>

-----------------------------------------------------------------------------
(* TopicDetector and TopicSuggester *)

\* TOPIC_DEFINITIONS, in order
TopicIds ==
    <<"technology", "food", "travel", "work", "hobbies", "philosophy", "personal",
      "entertainment", "general">>

\* the topics for which the word matches \bkeyword\b
KeywordTopics(w) ==
    IF w = "food" THEN {"food"}
    ELSE IF w = "music" THEN {"hobbies", "entertainment"}
    ELSE IF w = "travel" THEN {"travel"}
    ELSE IF w \in {"conversation", "why?"} THEN {"general"}
    ELSE {}

\* detectTopics: matchCount of a topic in the words of a message
MatchCount(topic, words) ==
    Cardinality({i \in 1..Len(words) : topic \in KeywordTopics(words[i])})

\* mutant: the relevance is not capped
RelevanceScore_Uncapped(matchCount, wordCount) == Rat(10 * matchCount, wordCount)

\* detectTopics: Math.min(1, matchCount / (wordCount * 0.1))
RelevanceScore(matchCount, wordCount) == RatMin(Rat(1, 1), Rat(10 * matchCount, wordCount))

\* detectTopics: the detected topics with their scores, before sorting
DetectedTopics(words) ==
    With(SelectSeq(TopicIds, LAMBDA t : MatchCount(t, words) > 0),
         LAMBDA hit :
            [i \in 1..Len(hit) |->
                With(MatchCount(hit[i], words),
                     LAMBDA matchCount :
                        [id |-> hit[i], matchCount |-> matchCount,
                         relevanceScore |-> RelevanceScore(matchCount, Len(words))])])

\* one topic put at its place in a list ordered by descending relevance, behind
\* the topics of equal relevance (Array.prototype.sort is stable)
RECURSIVE InsertByRelevance(_, _)
InsertByRelevance(topic, sorted) ==
    IF sorted = <<>> THEN <<topic>>
    ELSE IF RatLess(Head(sorted).relevanceScore, topic.relevanceScore)
         THEN <<topic>> \o sorted
         ELSE <<Head(sorted)>> \o InsertByRelevance(topic, Tail(sorted))

RECURSIVE SortFrom(_, _)
SortFrom(ts, sorted) ==
    IF ts = <<>> THEN sorted ELSE SortFrom(Tail(ts), InsertByRelevance(Head(ts), sorted))

\* mutant: the detected topics stay in the order of TOPIC_DEFINITIONS
SortByRelevance_Unsorted(ts) == ts

\* detectTopics: detectedTopics.sort((a, b) => b.relevanceScore - a.relevanceScore)
SortByRelevance(ts) == SortFrom(ts, <<>>)

\* detectTopics: the first topic of the sorted list, without its matchCount
DominantTopic(ts) ==
    IF ts = <<>> THEN Undefined
    ELSE Some([id |-> ts[1].id, relevanceScore |-> ts[1].relevanceScore])

\* detectTopics: the words counted by the sentiment analysis
PositiveWords ==
    {"good", "great", "wonderful", "amazing", "love", "enjoy", "happy", "excited"}

NegativeWords ==
    {"bad", "terrible", "awful", "hate", "sad", "angry", "disappointed", "worried"}

\* detectTopics: the sentiment of the words of a message
Sentiment(words) ==
    LET positiveCount == Cardinality({i \in 1..Len(words) : words[i] \in PositiveWords})
        negativeCount == Cardinality({i \in 1..Len(words) : words[i] \in NegativeWords})
    IN  IF positiveCount > negativeCount THEN "positive"
        ELSE IF negativeCount > positiveCount THEN "negative"
        ELSE "neutral"

\* detectTopics
DetectTopics(text) ==
    With(SplitWords(text),
         LAMBDA words :
            With(SortByRelevance(DetectedTopics(words)),
                 LAMBDA ts :
                    With(DominantTopic(ts),
                         LAMBDA dominantTopic :
                            [detectedTopics |-> [i \in 1..Len(ts) |->
                                                    [id |-> ts[i].id,
                                                     relevanceScore |-> ts[i].relevanceScore]],
                             dominantTopic |-> dominantTopic,
                             topicConfidence |-> IF dominantTopic = Undefined THEN Rat(0, 1)
                                                 ELSE dominantTopic[1].relevanceScore,
                             messageAnalysis |-> [wordCount |-> Len(words),
                                                  uniqueWords |-> Cardinality(WordSet(text)),
                                                  sentiment |-> Sentiment(words)]])))

\* mutant: a confidence of exactly 0.5 counts as natural
SwitchType_HalfNatural(confidence) ==
    IF ~RatLess(confidence, Rat(1, 2)) THEN "natural"
    ELSE IF RatLess(Rat(3, 10), confidence) THEN "suggested"
    ELSE "forced"

\* detectTopicSwitch: the switch type for the confidence of the new detection
SwitchType(confidence) ==
    IF RatLess(Rat(1, 2), confidence) THEN "natural"
    ELSE IF RatLess(Rat(3, 10), confidence) THEN "suggested"
    ELSE "forced"

\* detectTopicSwitch: the switch, Undefined when there is none
DetectTopicSwitch(previousTopic, current) ==
    IF previousTopic = Undefined \/ current.dominantTopic = Undefined THEN Undefined
    ELSE IF previousTopic[1].id = current.dominantTopic[1].id THEN Undefined
    ELSE Some([fromTopic |-> previousTopic[1], toTopic |-> current.dominantTopic[1],
               switchType |-> SwitchType(current.topicConfidence),
               confidence |-> current.topicConfidence])

\* mutant: the whole history is the window
SliceLast_Whole(seq, k) == seq

\* Array.prototype.slice(-k); slice(-0) is the whole array
SliceLast(seq, k) == IF k = 0 THEN seq ELSE LastOf(seq, k)

\* calculateRecentMessageSimilarity: word overlap of one pair
WordOverlap(a, b) ==
    Rat(Cardinality(WordSet(a) \cap WordSet(b)), Cardinality(WordSet(a) \cup WordSet(b)))

\* calculateRecentMessageSimilarity
RecentMessageSimilarity(lullThreshold, history, currentMessage) ==
    With(SliceLast(history, lullThreshold),
         LAMBDA recentMessages :
            IF Len(recentMessages) < 2 THEN Rat(1, 2)
            ELSE RatDiv(RatSum([i \in 1..Len(recentMessages) |->
                                    WordOverlap(currentMessage, recentMessages[i].message)]),
                        Len(recentMessages)))

\* detectLull
DetectLull(lullThreshold, minMessageLength, history, currentMessage) ==
    With(SliceLast(history, lullThreshold),
         LAMBDA recentMessages :
            IF Len(recentMessages) < lullThreshold THEN FALSE
            ELSE LET allShortMessages ==
                         \A i \in 1..Len(recentMessages) :
                             TextLength(recentMessages[i].message) < minMessageLength
                     currentMessageShort == TextLength(currentMessage) < minMessageLength
                     semanticSimilarity ==
                         RecentMessageSimilarity(lullThreshold, history, currentMessage)
                     lowSemanticDiversity == RatLess(Rat(7, 10), semanticSimilarity)
                 IN  (allShortMessages /\ currentMessageShort) \/ lowSemanticDiversity)

\* mutant: the first eligible topic is suggested, recently discussed or not
SuggestTopic_FirstEligible(relevant, history, detection) ==
    LET currentTopicId == IF detection.dominantTopic = Undefined THEN ""
                          ELSE detection.dominantTopic[1].id
        suggestedTopics == SelectSeq(TopicIds, LAMBDA t : t \in relevant /\ t # currentTopicId)
    IN  IF suggestedTopics = <<>> THEN Undefined ELSE Some(suggestedTopics[1])

\* suggestTopic: relevant are the topics that match the agent's interests, in
\* the order of TOPIC_DEFINITIONS; the result is a topic id or Undefined
SuggestTopic(relevant, history, detection) ==
    LET currentTopicId == IF detection.dominantTopic = Undefined THEN ""
                          ELSE detection.dominantTopic[1].id
        suggestedTopics == SelectSeq(TopicIds, LAMBDA t : t \in relevant /\ t # currentTopicId)
        recent == LastOf(history, 5)
        recentTopicIds == {recent[i].topic[1].id :
                              i \in {j \in 1..Len(recent) : recent[j].topic # Undefined}}
        freshTopics == SelectSeq(suggestedTopics, LAMBDA t : t \notin recentTopicIds)
    IN  IF suggestedTopics = <<>> THEN Undefined
        ELSE IF freshTopics # <<>> THEN Some(freshTopics[1])
        ELSE Some(suggestedTopics[1])

\* mutant: every topic switch contributes its hint
TopicGuidance_AnySwitch(lullDetected, suggestion, topicSwitch) ==
    [lullHint |-> lullDetected /\ suggestion # Undefined,
     switchHint |-> topicSwitch # Undefined]

\* generateTopicGuidance: the parts of the guidance string
TopicGuidance(lullDetected, suggestion, topicSwitch) ==
    [lullHint |-> lullDetected /\ suggestion # Undefined,
     switchHint |-> topicSwitch # Undefined /\ topicSwitch[1].switchType = "suggested"]

\* generateTopicGuidance: the hints joined, Undefined when there is none
GenerateTopicGuidance(lullDetected, suggestion, topicSwitch) ==
    LET parts == TopicGuidance(lullDetected, suggestion, topicSwitch)
        text == (IF parts.lullHint THEN <<"lull hint">> ELSE <<>>)
                \o (IF parts.switchHint THEN <<"switch hint">> ELSE <<>>)
    IN  IF Len(text) > 0 THEN Some(text) ELSE Undefined

-----------------------------------------------------------------------------
(* TopicManager *)

\* largest lullThreshold explored
MaxLull == 3

\* number of analyzeMessage calls explored
MaxAnalyzed == 3

\* analyzeMessage keeps the last 20 history entries
HistoryCap == 20

\* analyzeMessage keeps the last 3 current topics
CurrentTopicsCap == 3

MinLengths == {3, 20}

TopicPool == {ShortOkUpper, Short15, LongTalk, FoodMusic, Rambling}

\* the topics matching the interests of the agent handed to analyzeMessage
AgentInterests == {{}, {"food", "general"}}

\* analyzeMessage: the update of currentTopics
UpdateCurrentTopics(currentTopics, dominantTopic) ==
    IF dominantTopic = Undefined THEN currentTopics
    ELSE LET same == {i \in 1..Len(currentTopics) : currentTopics[i].id = dominantTopic[1].id}
         IN  IF same # {}
             THEN [currentTopics EXCEPT ![CHOOSE i \in same : \A j \in same : i <= j] = dominantTopic[1]]
             ELSE LET pushed == Append(currentTopics, dominantTopic[1])
                  IN  IF Len(pushed) > CurrentTopicsCap THEN Tail(pushed) ELSE pushed

\* mutant: the oldest entry is never evicted
PushHistory_Unbounded(history, entry) == Append(history, entry)

\* analyzeMessage: the history after the push of the analyzed message
PushHistory(history, entry) ==
    IF Len(history) + 1 > HistoryCap THEN Tail(Append(history, entry)) ELSE Append(history, entry)

\* analyzeMessage: the switch from the entry before the analyzed one
SwitchFromPrevious(history, detection) ==
    IF Len(history) >= 2
    THEN IF history[Len(history) - 1].topic # Undefined
         THEN DetectTopicSwitch(history[Len(history) - 1].topic, detection)
         ELSE Undefined
    ELSE Undefined

\* analyzeMessage: the manager after the call, its result in the field result
AnalyzeMessageOf(tm, message, turnNumber, relevant) ==
    With(DetectTopics(message), LAMBDA detection :
    With(PushHistory(tm.conversationHistory,
                     [turnNumber |-> turnNumber, topic |-> detection.dominantTopic,
                      message |-> message]), LAMBDA history :
    With(SwitchFromPrevious(history, detection), LAMBDA topicSwitch :
    With(DetectLull(tm.lullThreshold, tm.minMessageLength, history, message), LAMBDA lullDetected :
    With(IF lullDetected THEN SuggestTopic(relevant, history, detection) ELSE Undefined,
         LAMBDA suggestion :
        [tm EXCEPT
            !.conversationHistory = history,
            !.currentTopics = UpdateCurrentTopics(@, detection.dominantTopic),
            !.topicSwitches = @ \o topicSwitch,
            !.lullDetected = lullDetected,
            !.lastActiveTurn = IF lullDetected THEN Some(turnNumber) ELSE @,
            !.suggestions = @ \o suggestion,
            !.calls = @ + 1,
            !.lull = Undefined,
            !.result = Some([detection |-> detection, topicSwitch |-> topicSwitch,
                             suggestion |-> suggestion,
                             guidance |-> TopicGuidance(lullDetected, suggestion, topicSwitch)])])))))

\* analyzeMessage
AnalyzeMessage ==
    /\ topicMgr.calls < MaxAnalyzed
    /\ \E message \in TopicPool, relevant \in AgentInterests :
          topicMgr' = AnalyzeMessageOf(topicMgr, message, topicMgr.calls + 1, relevant)
    /\ UNCHANGED <<engineVars, hubVars, ctx, tracker, advisorVars>>

\* TopicSuggester.detectLull on the state of the manager
DetectLullCall ==
    /\ topicMgr.lull = Undefined
    /\ \E message \in TopicPool :
          topicMgr' = [topicMgr EXCEPT !.lull =
                          Some([message |-> message,
                                result |-> DetectLull(topicMgr.lullThreshold,
                                                      topicMgr.minMessageLength,
                                                      topicMgr.conversationHistory, message)])]
    /\ UNCHANGED <<engineVars, hubVars, ctx, tracker, advisorVars>>

\* a TopicManager constructed with any thresholds
InitTopic ==
    /\ config = [maxTurns |-> MaxTurnsCfg, infiniteMode |-> FALSE, usePastMemories |-> TRUE,
                 memoryStore |-> TRUE, cipher |-> TRUE]
    /\ orch = NewOrchestrator
    /\ refOrch = NewOrchestrator
    /\ pc = "start"
    /\ obs = InitObs
    /\ horizon = 0
    /\ store = NewStore
    /\ plugins = <<>>
    /\ regCount = 0
    /\ events = <<>>
    /\ hubLog = <<>>
    /\ hubLimits = [regs |-> 0, events |-> 0]
    /\ ctx = IdleContext
    /\ tracker = IdleTracker
    /\ AdvisorIdle
    /\ \E lullThreshold \in 1..MaxLull, minMessageLength \in MinLengths :
          topicMgr = NewTopicManager(lullThreshold, minMessageLength)

NextTopic == AnalyzeMessage \/ DetectLullCall

SpecTopic == InitTopic /\ [][NextTopic]_vars

-----------------------------------------------------------------------------
(* Single calls of the TopicDetector and the TopicSuggester *)

\* 20 words with one keyword: relevance exactly 0.5
Half20 == <<"food">> \o [i \in 1..19 |-> "ok"]

\* 40 words with one keyword: relevance 0.25
Sparse40 == <<"travel">> \o [i \in 1..39 |-> "ok"]

\* 100 words with three keywords of one topic: relevance exactly 0.3
Three100 == <<"food", "food", "food">> \o [i \in 1..97 |-> "ok"]

\* 30 words: the topic later in the catalog has the higher relevance
Mixed30 == <<"food", "travel", "travel">> \o [i \in 1..27 |-> "ok"]

GoodFood == <<"good", "food">>

BadTrip == <<"bad", "bad", "good", "travel">>

GoodBad == <<"good", "bad">>

\* the messages handed to detectTopics; <<>> is the empty string
DetectPool ==
    {<<>>, ShortOkUpper, FoodMusic, LongTalk, Rambling, Half20, Sparse40, Three100, Mixed30,
     GoodFood, BadTrip, GoodBad}

\* the agents handed to suggestTopic: the two of the bootstrap, one whose only
\* interest is "Cooking", one with the interests "Cooking" and "chat" and one
\* without interests
ProbeAgents == {"alice", "bob", "cook", "host", "nobody"}

\* suggestTopic: the topics with a keyword that contains, or is contained in,
\* one of the agent's lower-cased interests
RelevantTopics(agent) ==
    IF agent = "alice" THEN {"philosophy", "entertainment", "general"}
    ELSE IF agent = "bob"
         THEN {"technology", "food", "travel", "hobbies", "personal", "entertainment"}
    ELSE IF agent = "cook" THEN {"food"}
    ELSE IF agent = "host" THEN {"food", "general"}
    ELSE {}

\* the history entries of the given messages, as analyzeMessage pushes them
HistoryOf(texts) ==
    [i \in 1..Len(texts) |->
        [turnNumber |-> i, topic |-> DetectTopics(texts[i]).dominantTopic, message |-> texts[i]]]

\* the histories handed to suggestTopic
ProbeHistories ==
    {<<>>,
     <<FoodMusic, LongTalk>>,
     <<FoodMusic, ShortOkUpper, ShortOkUpper, ShortOkUpper, ShortOkUpper, ShortOkUpper>>,
     <<Music, Travel, FoodMusic, LongTalk, Music, Travel>>,
     <<LongTalk, FoodMusic, ShortOkUpper>>,
     <<FoodMusic, ShortOkUpper>>}

\* the current messages handed to suggestTopic
ProbeCurrent == {ShortOkUpper, FoodMusic, LongTalk, Music}

\* the suggestions and switches handed to generateTopicGuidance
ProbeSuggestions == {Undefined, Some("food"), Some("general")}

ProbeSwitches ==
    {Undefined} \cup
    {DetectTopicSwitch(DetectTopics(LongTalk).dominantTopic, DetectTopics(current)) :
        current \in {FoodMusic, Rambling, Sparse40}}

\* the calls explored, before they are made
ProbeInputs ==
    {[op |-> "detectTopics", args |-> [message |-> m], out |-> Undefined] : m \in DetectPool}
    \cup {[op |-> "detectTopicSwitch", args |-> [previous |-> a, current |-> b], out |-> Undefined] :
              a \in DetectPool, b \in DetectPool}
    \cup {[op |-> "suggestTopic", args |-> [agent |-> a, history |-> h, current |-> c],
           out |-> Undefined] : a \in ProbeAgents, h \in ProbeHistories, c \in ProbeCurrent}
    \cup {[op |-> "generateTopicGuidance",
           args |-> [lullDetected |-> l, suggestion |-> g, topicSwitch |-> w],
           out |-> Undefined] : l \in BOOLEAN, g \in ProbeSuggestions, w \in ProbeSwitches}

\* the call of the given function is made and its result recorded
Returns(op, result) ==
    /\ probe # Undefined
    /\ probe.op = op
    /\ probe.out = Undefined
    /\ probe' = [probe EXCEPT !.out = Some(result)]
    /\ UNCHANGED <<engineVars, hubVars, ctx, topicMgr, tracker, feed, flowMgr>>

\* TopicDetector.detectTopics
DetectTopicsCall ==
    /\ probe # Undefined
    /\ probe.op = "detectTopics"
    /\ Returns("detectTopics", DetectTopics(probe.args.message))

\* TopicDetector.detectTopicSwitch
DetectTopicSwitchCall ==
    /\ probe # Undefined
    /\ probe.op = "detectTopicSwitch"
    /\ Returns("detectTopicSwitch",
               DetectTopicSwitch(DetectTopics(probe.args.previous).dominantTopic,
                                 DetectTopics(probe.args.current)))

\* TopicSuggester.suggestTopic
SuggestTopicCall ==
    /\ probe # Undefined
    /\ probe.op = "suggestTopic"
    /\ Returns("suggestTopic",
               SuggestTopic(RelevantTopics(probe.args.agent), HistoryOf(probe.args.history),
                            DetectTopics(probe.args.current)))

\* TopicSuggester.generateTopicGuidance
GenerateTopicGuidanceCall ==
    /\ probe # Undefined
    /\ probe.op = "generateTopicGuidance"
    /\ Returns("generateTopicGuidance",
               GenerateTopicGuidance(probe.args.lullDetected, probe.args.suggestion,
                                     probe.args.topicSwitch))

InitProbe ==
    /\ config = [maxTurns |-> MaxTurnsCfg, infiniteMode |-> FALSE, usePastMemories |-> TRUE,
                 memoryStore |-> TRUE, cipher |-> TRUE]
    /\ orch = NewOrchestrator
    /\ refOrch = NewOrchestrator
    /\ pc = "start"
    /\ obs = InitObs
    /\ horizon = 0
    /\ store = NewStore
    /\ plugins = <<>>
    /\ regCount = 0
    /\ events = <<>>
    /\ hubLog = <<>>
    /\ hubLimits = [regs |-> 0, events |-> 0]
    /\ ctx = IdleContext
    /\ tracker = IdleTracker
    /\ topicMgr = IdleTopicManager
    /\ feed = IdleFeed
    /\ flowMgr = IdleFlow
    /\ probe \in ProbeInputs

NextProbe ==
    \/ DetectTopicsCall
    \/ DetectTopicSwitchCall
    \/ SuggestTopicCall
    \/ GenerateTopicGuidanceCall

SpecProbe == InitProbe /\ [][NextProbe]_vars

-----------------------------------------------------------------------------
(* Long runs of the TopicManager: direct callers and executeTurn *)

\* number of analyzeMessage calls of a direct caller followed
RollCalls == 22

\* number of turns of an engine with a TopicManager followed
RollTurns == 12

\* the texts the messages of a long run cycle through
FeedCycles ==
    {<<ShortOkUpper>>, <<Short15>>, <<FoodMusic, LongTalk>>, <<Rambling, LongTalk>>,
     <<FoodMusic, LongTalk, Music, Travel>>}

\* the content of the message of a turn (of the n-th call of a direct caller)
FeedText(fd, turn) == fd.cycle[((turn - 1) % Len(fd.cycle)) + 1]

\* analyzeMessage called for each of the given messages in order
RECURSIVE AnalyzeAll(_, _, _)
AnalyzeAll(tm, calls, relevant) ==
    IF calls = <<>> THEN tm
    ELSE With(AnalyzeMessageOf(tm, Head(calls).message, Head(calls).turnNumber, relevant),
              LAMBDA next : AnalyzeAll(next, Tail(calls), relevant))

\* executeTurn: the analyzeMessage calls of the turn after fd.turns turns.  The
\* last message is analyzed when memories are retrieved through the hub, the
\* previous message (the same one) is analyzed for the guidance, and the
\* generated message is analyzed once it is there
TurnAnalyses(fd) ==
    LET previousMessage ==
            <<[message |-> FeedText(fd, fd.turns), turnNumber |-> fd.turns]>>
        generated ==
            <<[message |-> FeedText(fd, fd.turns + 1), turnNumber |-> fd.turns + 1]>>
    IN  (IF fd.mode = "hub" /\ fd.turns > 0 THEN previousMessage ELSE <<>>)
        \o (IF fd.turns > 0 THEN previousMessage ELSE <<>>)
        \o generated

\* mutant: the analysis of the generated message counts among them
GuidanceCalls_All(calls) == calls

\* executeTurn: the analyzeMessage calls made before the generation, the
\* last of them for the guidance
GuidanceCalls(calls) == SubSeq(calls, 1, Len(calls) - 1)

\* a direct caller hands the next message to analyzeMessage
AnalyzeNext ==
    /\ feed.mode = "calls"
    /\ feed.turns < RollCalls
    /\ \E calls \in {<<[message |-> FeedText(feed, feed.turns + 1),
                         turnNumber |-> feed.turns + 1]>>} :
        /\ topicMgr' = AnalyzeAll(topicMgr, calls, feed.relevant)
        /\ feed' = [feed EXCEPT !.turns = @ + 1, !.analyzed = @ \o calls]
    /\ UNCHANGED <<engineVars, hubVars, ctx, tracker, probe, flowMgr>>

\* executeTurn: the analysis of the previous message made for the guidance
\* (Undefined on the first turn): its result, and the number of recorded
\* switches before the turn and after this analysis
GuidanceAnalysis(tm, calls, relevant) ==
    IF calls = <<>> THEN Undefined
    ELSE With(AnalyzeAll(tm, calls, relevant), LAMBDA analyzed :
             Some([result |-> analyzed.result[1],
                   switchesBefore |-> Len(tm.topicSwitches),
                   switchesAfter |-> Len(analyzed.topicSwitches)]))

\* executeTurn of an engine with a TopicManager, as the TopicManager sees it
TopicTurn ==
    /\ feed.mode \in {"engine", "hub"}
    /\ feed.turns < RollTurns
    /\ \E calls \in {TurnAnalyses(feed)} :
        /\ topicMgr' = AnalyzeAll(topicMgr, calls, feed.relevant)
        /\ feed' = [feed EXCEPT !.turns = @ + 1, !.analyzed = @ \o calls,
                                !.guided = GuidanceAnalysis(topicMgr, GuidanceCalls(calls),
                                                             feed.relevant)]
    /\ UNCHANGED <<engineVars, hubVars, ctx, tracker, probe, flowMgr>>

\* the TopicManager of the bootstrap, handed the messages of a long run
InitRoll ==
    /\ config = [maxTurns |-> MaxTurnsCfg, infiniteMode |-> FALSE, usePastMemories |-> TRUE,
                 memoryStore |-> TRUE, cipher |-> TRUE]
    /\ orch = NewOrchestrator
    /\ refOrch = NewOrchestrator
    /\ pc = "start"
    /\ obs = InitObs
    /\ horizon = 0
    /\ store = NewStore
    /\ plugins = <<>>
    /\ regCount = 0
    /\ events = <<>>
    /\ hubLog = <<>>
    /\ hubLimits = [regs |-> 0, events |-> 0]
    /\ ctx = IdleContext
    /\ tracker = IdleTracker
    /\ topicMgr = IdleTopicManager
    /\ probe = Undefined
    /\ flowMgr = IdleFlow
    /\ \E cycle \in FeedCycles, relevant \in AgentInterests, mode \in {"calls", "engine", "hub"} :
          feed = NewFeed(cycle, relevant, mode)

NextRoll == AnalyzeNext \/ TopicTurn

SpecRoll == InitRoll /\ [][NextRoll]_vars

-----------------------------------------------------------------------------
(* EngagementTracker *)

\* largest windowSize explored
MaxWindow == 2

\* number of trackMessage calls explored between two resets
MaxTracked == 3

\* 7 characters: a question, a detail word, two reference words
WhyIt == <<"why?", "it">>

\* 779 characters
Essay == [i \in 1..60 |-> "conversation"]

TrackTexts == {ShortOk, ShortOkUpper, WhyIt, FoodMusic, Rambling, Essay}

\* the lowEngagementThreshold values explored: the default and 0.9
LowThresholds == {Undefined, Some([n |-> 9, d |-> 10])}

RECURSIVE Flatten(_)
\* Array.prototype.flat
Flatten(seqs) == IF seqs = <<>> THEN <<>> ELSE Head(seqs) \o Flatten(Tail(seqs))

\* new Set(array).size
UniqueCount(seq) == Cardinality({seq[i] : i \in 1..Len(seq)})

\* the topics arrays of the messages that carry one
TopicsOf(messages) ==
    LET withTopics == SelectSeq(messages, LAMBDA msg : msg.topics # Undefined)
    IN  [i \in 1..Len(withTopics) |-> withTopics[i].topics[1]]

\* calculateMessageDiversity
MessageDiversity(trk) ==
    LET recentMessages == SliceLast(trk.messageHistory, trk.config.windowSize)
        topics == Flatten(TopicsOf(recentMessages))
        topicDiversity == IF Len(topics) > 0 THEN Rat(UniqueCount(topics), Len(topics))
                          ELSE Rat(1, 2)
        allWords == Flatten([i \in 1..Len(recentMessages) |-> SplitWords(recentMessages[i].content)])
        vocabularyDiversity == IF Len(allWords) > 0 THEN Rat(UniqueCount(allWords), Len(allWords))
                               ELSE Rat(1, 2)
    IN  RatDiv(RatAdd(topicDiversity, vocabularyDiversity), 2)

\* calculateResponseQuality: the score of one message
QualityScore(cfg, length) ==
    IF length >= cfg.minMessageLength /\ length <= cfg.maxMessageLength THEN Rat(1, 1)
    ELSE IF length < cfg.minMessageLength THEN Rat(length, cfg.minMessageLength)
    ELSE RatMax(Rat(3, 10), RatSub(Rat(1, 1), Rat(length - cfg.maxMessageLength, 200)))

\* calculateResponseQuality
ResponseQuality(trk) ==
    LET recentMessages == SliceLast(trk.messageHistory, trk.config.windowSize)
    IN  IF Len(recentMessages) = 0 THEN Rat(1, 2)
        ELSE RatDiv(RatSum([i \in 1..Len(recentMessages) |->
                                QualityScore(trk.config, TextLength(recentMessages[i].content))]),
                    Len(recentMessages))

\* calculateTopicFlowSmoothness
TopicFlowSmoothness(trk) ==
    LET recentMessages == SliceLast(trk.messageHistory, trk.config.windowSize)
        topics == TopicsOf(recentMessages)
        both == {i \in 2..Len(topics) : Len(topics[i - 1]) > 0 /\ Len(topics[i]) > 0}
        overlap(i) == \E a \in 1..Len(topics[i - 1]), b \in 1..Len(topics[i]) :
                          topics[i - 1][a] = topics[i][b]
        smoothTransitions == Cardinality({i \in both : overlap(i)})
        switches == Cardinality({i \in both : ~overlap(i)})
        totalTransitions == switches + smoothTransitions
    IN  IF Len(topics) < 2 THEN Rat(1, 2)
        ELSE IF totalTransitions = 0 THEN Rat(1, 2)
        ELSE LET smoothnessRatio == Rat(smoothTransitions, totalTransitions)
                 switchPenalty == IF 2 * switches > totalTransitions THEN Rat(1, 5) ELSE Rat(0, 1)
             IN  RatMax(Rat(0, 1), RatSub(smoothnessRatio, switchPenalty))

\* calculateConversationDepth: the number of "?" in a word
QuestionMarks(w) == IF w = "why?" THEN 1 ELSE 0

\* calculateConversationDepth: whether the word contains one of the detail words
HasDetailWord(w) == w = "why?"

\* calculateConversationDepth: the reference words the word contains
ReferenceWordsIn(w) ==
    IF w = "it" THEN {"it", "i"}
    ELSE IF w \in {"conversation", "music"} THEN {"i"}
    ELSE {}

\* calculateConversationDepth: the depth of one message
MessageDepth(text) ==
    LET words == SplitWords(text)
        questionCount == Cardinality({i \in 1..Len(words) : QuestionMarks(words[i]) > 0})
        hasDetail == \E i \in 1..Len(words) : HasDetailWord(words[i])
        referenceCount == Cardinality(UNION {ReferenceWordsIn(words[i]) : i \in 1..Len(words)})
        messageDepth ==
            RatSum(<<RatMin(Rat(3, 10), Rat(questionCount, 10)),
                     IF hasDetail THEN Rat(1, 5) ELSE Rat(0, 1),
                     RatMin(Rat(1, 5), Rat(referenceCount, 20)),
                     IF TextLength(text) > 50 THEN Rat(3, 10) ELSE Rat(0, 1)>>)
    IN  RatMin(Rat(1, 1), messageDepth)

\* calculateConversationDepth
ConversationDepth(trk) ==
    LET recentMessages == SliceLast(trk.messageHistory, trk.config.windowSize)
    IN  IF Len(recentMessages) = 0 THEN Rat(1, 2)
        ELSE RatDiv(RatSum([i \in 1..Len(recentMessages) |-> MessageDepth(recentMessages[i].content)]),
                    Len(recentMessages))

\* calculateMetrics: the weighted average
OverallEngagement(diversity, quality, flow, depth) ==
    RatSum(<<RatMul(diversity, Rat(1, 4)), RatMul(quality, Rat(3, 10)),
             RatMul(flow, Rat(1, 4)), RatMul(depth, Rat(1, 5))>>)

\* calculateMetrics past the short-window return
ComputedMetrics(trk) ==
    LET messageDiversity == MessageDiversity(trk)
        responseQuality == ResponseQuality(trk)
        topicFlowSmoothness == TopicFlowSmoothness(trk)
        conversationDepth == ConversationDepth(trk)
    IN  [messageDiversity |-> messageDiversity, responseQuality |-> responseQuality,
         topicFlowSmoothness |-> topicFlowSmoothness, conversationDepth |-> conversationDepth,
         overallEngagement |-> OverallEngagement(messageDiversity, responseQuality,
                                                 topicFlowSmoothness, conversationDepth)]

\* mutant: no default for a short window
CalculateMetricsOf_NoDefault(trk) == ComputedMetrics(trk)

\* calculateMetrics
CalculateMetricsOf(trk) ==
    IF Len(trk.messageHistory) < 2
    THEN [messageDiversity |-> Rat(1, 1), responseQuality |-> Rat(1, 1),
          topicFlowSmoothness |-> Rat(1, 1), conversationDepth |-> Rat(1, 2),
          overallEngagement |-> Rat(1, 1)]
    ELSE ComputedMetrics(trk)

\* mutant: depth is looked at before diversity
InterventionType_DepthFirst(cfg, metrics) ==
    IF RatLess(metrics.overallEngagement, cfg.lowEngagementThreshold)
    THEN IF RatLess(metrics.topicFlowSmoothness, Rat(3, 10)) THEN "topic_change"
         ELSE IF RatLess(metrics.conversationDepth, Rat(3, 10)) THEN "depth_encouragement"
         ELSE IF RatLess(metrics.messageDiversity, Rat(3, 10)) THEN "variety_injection"
         ELSE "topic_change"
    ELSE "none"

\* shouldIntervene: the intervention type for the metrics
InterventionType(cfg, metrics) ==
    IF RatLess(metrics.overallEngagement, cfg.lowEngagementThreshold)
    THEN IF RatLess(metrics.topicFlowSmoothness, Rat(3, 10)) THEN "topic_change"
         ELSE IF RatLess(metrics.messageDiversity, Rat(3, 10)) THEN "variety_injection"
         ELSE IF RatLess(metrics.conversationDepth, Rat(3, 10)) THEN "depth_encouragement"
         ELSE "topic_change"
    ELSE "none"

\* mutant: nothing is evicted
Evict_Never(history, windowSize) == history

\* trackMessage: the oldest message leaves a window that is over its size
Evict(history, windowSize) == IF Len(history) > windowSize THEN Tail(history) ELSE history

\* trackMessage
TrackMessageOf(trk, content, topics) ==
    LET entry == [content |-> content, topics |-> topics]
    IN  [trk EXCEPT !.messageHistory = Evict(Append(@, entry), trk.config.windowSize),
                    !.tracked = Append(@, entry),
                    !.last = Undefined]

\* trackMessage(content) without topics
TrackMessage ==
    /\ Len(tracker.tracked) < MaxTracked
    /\ \E content \in {ShortOk, Essay} :
          tracker' = [TrackMessageOf(tracker, content, Undefined) EXCEPT !.detection = Undefined]
    /\ UNCHANGED <<engineVars, hubVars, ctx, topicMgr, advisorVars>>

\* executeTurn: the topics of the generated message are detected and the
\* message is tracked with the name of its dominant topic, if any
TrackTurnMessage ==
    /\ Len(tracker.tracked) < MaxTracked
    /\ \E content \in TrackTexts \ {ShortOk, Essay} :
          \E detection \in {DetectTopics(content)} :
              LET detectedTopics == IF detection.dominantTopic = Undefined THEN <<>>
                                    ELSE <<detection.dominantTopic[1].id>>
              IN  tracker' = [TrackMessageOf(tracker, content, Some(detectedTopics))
                                 EXCEPT !.detection = Some(detection)]
    /\ UNCHANGED <<engineVars, hubVars, ctx, topicMgr, advisorVars>>

\* a query of the tracker, its result kept in the field last
Query(op) ==
    /\ IF tracker.last = Undefined THEN TRUE ELSE tracker.last[1].op # op
    /\ \E metrics \in {CalculateMetricsOf(tracker)} :
           tracker' = [tracker EXCEPT !.last =
                          Some([op |-> op, metrics |-> metrics,
                                type |-> IF op = "shouldIntervene"
                                         THEN InterventionType(tracker.config, metrics)
                                         ELSE ""])]
    /\ UNCHANGED <<engineVars, hubVars, ctx, topicMgr, advisorVars>>

\* calculateMetrics
CalculateMetrics == Query("calculateMetrics")

\* getMetrics
GetMetrics == Query("getMetrics")

\* shouldIntervene
ShouldIntervene == Query("shouldIntervene")

\* reset
Reset ==
    /\ tracker.tracked # <<>>
    /\ tracker' = [tracker EXCEPT !.messageHistory = <<>>, !.tracked = <<>>,
                                  !.detection = Undefined, !.last = Undefined]
    /\ UNCHANGED <<engineVars, hubVars, ctx, topicMgr, advisorVars>>

\* an EngagementTracker constructed with any window size and threshold
InitTrack ==
    /\ config = [maxTurns |-> MaxTurnsCfg, infiniteMode |-> FALSE, usePastMemories |-> TRUE,
                 memoryStore |-> TRUE, cipher |-> TRUE]
    /\ orch = NewOrchestrator
    /\ refOrch = NewOrchestrator
    /\ pc = "start"
    /\ obs = InitObs
    /\ horizon = 0
    /\ store = NewStore
    /\ plugins = <<>>
    /\ regCount = 0
    /\ events = <<>>
    /\ hubLog = <<>>
    /\ hubLimits = [regs |-> 0, events |-> 0]
    /\ ctx = IdleContext
    /\ topicMgr = IdleTopicManager
    /\ AdvisorIdle
    /\ \E windowSize \in 0..MaxWindow, low \in LowThresholds :
          tracker = NewEngagementTracker(
                        [windowSize |-> Some(windowSize), minMessageLength |-> Undefined,
                         maxMessageLength |-> Undefined, lowEngagementThreshold |-> low,
                         highEngagementThreshold |-> Undefined])

NextTrack ==
    \/ TrackMessage
    \/ TrackTurnMessage
    \/ CalculateMetrics
    \/ GetMetrics
    \/ ShouldIntervene
    \/ Reset

SpecTrack == InitTrack /\ [][NextTrack]_vars

-----------------------------------------------------------------------------
(* FlowManager *)

\* number of analyzeMessage calls of the FlowManager explored
MaxFlowCalls == 2

\* number of shouldPause calls explored
MaxPauses == 2

\* the word of a token without its trailing question mark
StripMark(w) == IF w = "why?" THEN "why" ELSE IF w = "ok?" THEN "ok" ELSE w

\* lower.includes("?")
IncludesMark(content) == \E i \in 1..Len(content) : content[i] \in {"why?", "ok?"}

\* lower.match(/\b(cue|...)\b/): some word of the message is one of the cues
MatchesAny(content, cues) ==
    \E i \in 1..Len(content) : StripMark(ToLower(content[i])) \in cues

QuestionWords == {"what", "why", "how", "when", "where", "who", "which"}

StoryWords == {"once", "remember", "story", "happened", "told", "tale", "narrative"}

DebateWords == {"but", "however", "although", "disagree", "agree", "opinion", "think", "believe"}

ReasonWords == {"because", "reason", "why", "argument"}

DeepWords == {"explore", "analyze", "understand", "examine", "consider", "implications", "complex"}

SinceWords == {"because", "since", "therefore", "thus"}

\* the one-word openings of the acknowledgment rule
AckWords == {"yeah", "yes", "yep", "right", "ok", "okay", "sure", "interesting", "hmm", "ah"}

\* lower.match(/^(yeah|...|got it|i see|...)\b/i)
StartsWithAck(content) ==
    /\ Len(content) >= 1
    /\ \/ StripMark(ToLower(content[1])) \in AckWords
       \/ /\ Len(content) >= 2
          /\ <<ToLower(content[1]), StripMark(ToLower(content[2]))>> \in {<<"got", "it">>, <<"i", "see">>}

\* detectBeat: the rules, in the order they are tested
IsQuestion(content) == IncludesMark(content) \/ MatchesAny(content, QuestionWords)

IsStory(content) == MatchesAny(content, StoryWords) \/ TextLength(content) > 150

IsDebate(content) == MatchesAny(content, DebateWords) /\ MatchesAny(content, ReasonWords)

IsDeepDive(content) ==
    \/ MatchesAny(content, DeepWords)
    \/ (TextLength(content) > 100 /\ MatchesAny(content, SinceWords))

IsAcknowledgment(content) == StartsWithAck(content) /\ TextLength(content) < 30

IsCasual(content) == TextLength(content) < 80 /\ ~IncludesMark(content)

\* mutant: the story rule is tested before the question rule
DetectBeat_StoryFirst(content) ==
    IF IsStory(content) THEN "story_listening"
    ELSE IF IsQuestion(content) THEN "question_answer"
    ELSE IF IsDebate(content) THEN "debate_discussion"
    ELSE IF IsDeepDive(content) THEN "deep_dive"
    ELSE IF IsAcknowledgment(content) THEN "acknowledgment"
    ELSE IF IsCasual(content) THEN "casual_chat"
    ELSE "unknown"

\* detectBeat
DetectBeat(content) ==
    IF IsQuestion(content) THEN "question_answer"
    ELSE IF IsStory(content) THEN "story_listening"
    ELSE IF IsDebate(content) THEN "debate_discussion"
    ELSE IF IsDeepDive(content) THEN "deep_dive"
    ELSE IF IsAcknowledgment(content) THEN "acknowledgment"
    ELSE IF IsCasual(content) THEN "casual_chat"
    ELSE "unknown"

\* lower.includes(word) for the words of the mood and intensity lists: the
\* listed words a token of the explored texts contains
ListedWordsIn(w) ==
    IF w = "fun" THEN {"fun"}
    ELSE IF w = "love" THEN {"love"}
    ELSE IF w = "hate" THEN {"hate"}
    ELSE IF w = "think" THEN {"think"}
    ELSE IF w = "understand" THEN {"understand"}
    ELSE IF w = "problem" THEN {"problem"}
    ELSE {}

\* the listed words the message contains
ListedWords(content) ==
    UNION {ListedWordsIn(StripMark(ToLower(content[i]))) : i \in 1..Len(content)}

LightWords == {"fun", "funny", "laugh", "joke", "haha", "lol", "cool", "awesome"}

SeriousWords ==
    {"important", "serious", "critical", "problem", "issue", "concern", "worry", "difficult"}

ThoughtfulWords ==
    {"think", "consider", "wonder", "reflect", "philosophy", "meaning", "understand", "analyze"}

IntenseWords ==
    {"love", "hate", "amazing", "terrible", "excited", "angry", "passionate", "furious",
     "ecstatic", "devastated"}

\* mutant: the light words give the mood "light"
DetectMood_Light(content) ==
    IF ListedWords(content) \cap LightWords # {} THEN "light"
    ELSE IF ListedWords(content) \cap SeriousWords # {} THEN "serious"
    ELSE IF ListedWords(content) \cap ThoughtfulWords # {} THEN "thoughtful"
    ELSE "neutral"

\* detectMood
DetectMood(content) ==
    IF ListedWords(content) \cap LightWords # {} THEN "playful"
    ELSE IF ListedWords(content) \cap SeriousWords # {} THEN "serious"
    ELSE IF ListedWords(content) \cap ThoughtfulWords # {} THEN "thoughtful"
    ELSE "neutral"

\* updateEmotionalFlow
UpdateEmotionalFlow(emotionalFlow, content) ==
    LET intenseCount == Cardinality(ListedWords(content) \cap IntenseWords)
        newIntensity == RatMin(Rat(1, 1), RatAdd(Rat(1, 2), Rat(intenseCount, 10)))
        oldIntensity == emotionalFlow.intensity
    IN  [intensity |-> newIntensity,
         direction |-> IF RatLess(RatAdd(oldIntensity, Rat(1, 10)), newIntensity) THEN "increasing"
                       ELSE IF RatLess(newIntensity, RatSub(oldIntensity, Rat(1, 10)))
                            THEN "decreasing"
                       ELSE "stable"]

\* analyzeMessage keeps the last 5 beats
RecentBeatsCap == 5

\* analyzeMessage: the FlowState after the call made at the time now
AnalyzeFlow(state, content, now) ==
    LET timeSinceLastResponse == now - state.rhythm.lastResponseTime
        average == IF state.rhythm.averageResponseTime = Rat(0, 1)
                   THEN Rat(timeSinceLastResponse, 1)
                   ELSE RatAdd(RatMul(state.rhythm.averageResponseTime, Rat(4, 5)),
                               RatMul(Rat(timeSinceLastResponse, 1), Rat(1, 5)))
        beat == DetectBeat(content)
        pushed == Append(state.recentBeats, beat)
    IN  [currentBeat |-> beat,
         mood |-> DetectMood(content),
         rhythm |-> [averageResponseTime |-> average, lastResponseTime |-> now,
                     pauseCount |-> state.rhythm.pauseCount],
         recentBeats |-> IF Len(pushed) > RecentBeatsCap THEN Tail(pushed) ELSE pushed,
         emotionalFlow |-> UpdateEmotionalFlow(state.emotionalFlow, content)]

\* shouldPause: the probability of a pause for the current beat
PauseProbability(beat) ==
    IF beat \in {"casual_chat", "acknowledgment"} THEN Rat(1, 10)
    ELSE IF beat \in {"deep_dive", "thinking"} THEN Rat(3, 5)
    ELSE Rat(3, 10)

\* Math.round of a fraction that is not negative
Round(x) == (2 * x.n + x.d) \div (2 * x.d)

\* mutant: a pause is returned without being counted
PauseCounted_Never(count) == count

\* shouldPause: this.state.rhythm.pauseCount++
PauseCounted(count) == count + 1

\* shouldPause: the result (Undefined for null) and the FlowState after the
\* call, r1 and r2 being what the two Math.random() calls return
ShouldPauseOf(fm, r1, r2) ==
    IF ~fm.config.enablePauses THEN [result |-> Undefined, state |-> fm.state]
    ELSE IF RatLess(r1, PauseProbability(fm.state.currentBeat))
         THEN [result |-> Some(Round(RatAdd(Rat(fm.config.minPauseMs, 1),
                                            RatMul(r2, Rat(fm.config.maxPauseMs
                                                           - fm.config.minPauseMs, 1))))),
               state |-> [fm.state EXCEPT !.rhythm.pauseCount = PauseCounted(@)]]
         ELSE [result |-> Undefined, state |-> fm.state]

\* 90 characters without a cue
Ninety == [i \in 1..7 |-> "conversation"]

\* 111 characters, "because" being the only cue
LongBecause == [i \in 1..8 |-> "conversation"] \o <<"because">>

\* the messages handed to FlowManager.analyzeMessage
FlowTexts ==
    {<<>>, ShortOkUpper, <<"ok?">>, <<"ok", "explore">>, <<"remember", "why?">>,
     <<"story", "but", "because">>, <<"think", "because", "explore">>, FoodMusic,
     <<"love", "fun">>, Ninety, LongBecause, Essay, Essay \o <<"why">>}

\* the milliseconds passed since the last reading of Date.now(): 100 before
\* the first call, 100 or none between two calls
Elapsed(calls) == IF calls = 0 THEN {100} ELSE {0, 100}

\* the values Math.random() returns in the explorations (0 <= r < 1)
RandomDraws == {[n |-> 0, d |-> 1], [n |-> 1, d |-> 4], [n |-> 1, d |-> 2], [n |-> 9, d |-> 10]}

\* the values of the second Math.random() call, which scales the duration
DurationDraws == {[n |-> 0, d |-> 1], [n |-> 1, d |-> 2]}

\* the pause ranges explored, the constructor's default among them
PauseRanges ==
    {[min |-> Undefined, max |-> Undefined], [min |-> Some(0), max |-> Some(0)],
     [min |-> Some(1), max |-> Some(2)], [min |-> Some(3), max |-> Some(8)]}

\* FlowManager.analyzeMessage
FlowAnalyzeMessage ==
    /\ flowMgr.calls < MaxFlowCalls
    /\ \E content \in FlowTexts, elapsed \in Elapsed(flowMgr.calls) :
          flowMgr' = [flowMgr EXCEPT
                         !.state = AnalyzeFlow(flowMgr.state, content, flowMgr.now + elapsed),
                         !.now = @ + elapsed,
                         !.calls = @ + 1,
                         !.analyzed = Some(content)]
    /\ UNCHANGED <<engineVars, hubVars, ctx, topicMgr, tracker, feed, probe>>

\* FlowManager.shouldPause
ShouldPause ==
    /\ flowMgr.pauses < MaxPauses
    /\ \E r1 \in RandomDraws, r2 \in DurationDraws :
          \E call \in {ShouldPauseOf(flowMgr, r1, r2)} :
              flowMgr' = [flowMgr EXCEPT !.state = call.state,
                                         !.pauses = @ + 1,
                                         !.last = Some(call.result)]
    /\ UNCHANGED <<engineVars, hubVars, ctx, topicMgr, tracker, feed, probe>>

\* a FlowManager constructed with pauses on or off and any of the pause ranges
InitFlow ==
    /\ config = [maxTurns |-> MaxTurnsCfg, infiniteMode |-> FALSE, usePastMemories |-> TRUE,
                 memoryStore |-> TRUE, cipher |-> TRUE]
    /\ orch = NewOrchestrator
    /\ refOrch = NewOrchestrator
    /\ pc = "start"
    /\ obs = InitObs
    /\ horizon = 0
    /\ store = NewStore
    /\ plugins = <<>>
    /\ regCount = 0
    /\ events = <<>>
    /\ hubLog = <<>>
    /\ hubLimits = [regs |-> 0, events |-> 0]
    /\ ctx = IdleContext
    /\ tracker = IdleTracker
    /\ topicMgr = IdleTopicManager
    /\ feed = IdleFeed
    /\ probe = Undefined
    /\ \E enablePauses \in {Undefined, Some(TRUE), Some(FALSE)}, range \in PauseRanges :
          flowMgr = NewFlowManager([enablePauses |-> enablePauses, minPauseMs |-> range.min,
                                    maxPauseMs |-> range.max])

NextFlow == FlowAnalyzeMessage \/ ShouldPause

SpecFlow == InitFlow /\ [][NextFlow]_vars

-----------------------------------------------------------------------------
(* The turn of an engine with a FlowManager *)

\* number of turns of the runs with a FlowManager
PromptTurns == 3

\* getFlowContext: the hint of the current beat (every beat but unknown has
\* one) and the hint of the mood (every mood but neutral has one); Undefined
\* when there is neither
GetFlowContext(state) ==
    LET parts == (IF state.currentBeat # "unknown"
                  THEN <<[hint |-> "Flow", of |-> state.currentBeat]>> ELSE <<>>)
                 \o (IF state.mood # "neutral"
                     THEN <<[hint |-> "Mood", of |-> state.mood]>> ELSE <<>>)
    IN  IF Len(parts) > 0 THEN Some(parts) ELSE Undefined

\* CipherOrchestrator.manageConversationFlow: shouldPause is called, then the
\* flow context read; r1 and r2 are what Math.random() returns to shouldPause
ManageConversationFlowOf(fm, r1, r2) ==
    LET paused == ShouldPauseOf(fm, r1, r2)
    IN  [fm |-> [fm EXCEPT !.state = paused.state, !.pauses = @ + 1,
                           !.last = Some(paused.result)],
         flowContext |-> GetFlowContext(paused.state)]

\* run, before executeTurn: the pause asked of the hub or of the FlowManager
FlowBeforeTurn(cfg, fm, r1, r2) ==
    IF cfg.cipher THEN ManageConversationFlowOf(fm, r1, r2).fm
    ELSE [fm EXCEPT !.state = ShouldPauseOf(fm, r1, r2).state, !.pauses = @ + 1,
                    !.last = Some(ShouldPauseOf(fm, r1, r2).result)]

\* FlowManager.analyzeMessage, called by executeTurn on the previous message
AnalyzePrevious(fm, previous) ==
    IF previous = Undefined THEN fm
    ELSE [fm EXCEPT !.state = AnalyzeFlow(fm.state, previous[1], fm.now + 100),
                    !.now = @ + 100, !.calls = @ + 1, !.analyzed = previous]

\* executeTurn: the flow context of the turn and the FlowManager after it.
\* Through the hub the context is read before the previous message is
\* analyzed, without a hub after it.
FlowOfTurn(cfg, fm, previous, r1, r2) ==
    IF cfg.cipher
    THEN [fm |-> AnalyzePrevious(ManageConversationFlowOf(fm, r1, r2).fm, previous),
          flowContext |-> ManageConversationFlowOf(fm, r1, r2).flowContext]
    ELSE [fm |-> AnalyzePrevious(fm, previous),
          flowContext |-> GetFlowContext(AnalyzePrevious(fm, previous).state)]

\* the texts the backend answers with in the runs with a FlowManager
PromptTexts == {<<>>, <<"ok", "explore">>, <<"love", "fun">>, Ninety, <<"remember", "why?">>}

\* whether shouldPause draws below or above every pause probability
PromptDraws == {[n |-> 0, d |-> 1], [n |-> 9, d |-> 10]}

\* run: one iteration of the loop of an engine with a FlowManager (attached
\* directly or to the hub), the generation answering with content
TurnWithFlow ==
    /\ pc = "loop"
    /\ ~orch.state.isComplete
    /\ orch.state.currentTurn < horizon
    /\ \E content \in PromptTexts, r1 \in PromptDraws, r2 \in PromptDraws :
        \E before \in {FlowBeforeTurn(config, flowMgr, r1, [n |-> 1, d |-> 2])} :
        \E flow \in {FlowOfTurn(config, before,
                                 IF probe = Undefined THEN Undefined ELSE Some(probe.result.content),
                                 r2, [n |-> 1, d |-> 2])} :
            /\ orch' = RunIteration(config, orch, "ok", "empty", TextLength(content), "ok", "ok").o
            /\ refOrch' = orch'
            /\ pc' = "loop"
            /\ flowMgr' = flow.fm
            /\ probe' = [op |-> "executeTurn",
                         args |-> [turn |-> orch.state.currentTurn + 1],
                         result |-> [flowContext |-> flow.flowContext, content |-> content]]
            /\ obs' = [obs EXCEPT !.genCalls = @ + 1,
                                  !.retrieved = 0,
                                  !.calls = TurnCalls(config, orch, "ok", "ok", "ok"),
                                  !.hooks = TurnHooks(TurnCalls(config, orch, "ok", "ok", "ok"),
                                                      orch, "empty"),
                                  !.request = Some(RequestMessages(orch.state, 0, Undefined,
                                                                   flow.flowContext))]
    /\ UNCHANGED <<config, horizon, store, hubVars, ctx, topicMgr, tracker, feed>>

\* an engine of the bootstrap's kind without store and memories, its
\* FlowManager attached directly or to the hub
InitPrompt ==
    /\ \E cipher \in BOOLEAN :
          config = [maxTurns |-> PromptTurns, infiniteMode |-> FALSE, usePastMemories |-> FALSE,
                    memoryStore |-> FALSE, cipher |-> cipher]
    /\ orch = NewOrchestrator
    /\ refOrch = NewOrchestrator
    /\ pc = "start"
    /\ obs = InitObs
    /\ horizon = PromptTurns
    /\ store = NewStore
    /\ plugins = <<>>
    /\ regCount = 0
    /\ events = <<>>
    /\ hubLog = <<>>
    /\ hubLimits = [regs |-> 0, events |-> 0]
    /\ ctx = IdleContext
    /\ tracker = IdleTracker
    /\ topicMgr = IdleTopicManager
    /\ feed = IdleFeed
    /\ probe = Undefined
    /\ flowMgr = NewFlowManager([enablePauses |-> Some(TRUE),
                                 minPauseMs |-> Some(DefaultMinPauseMs),
                                 maxPauseMs |-> Some(DefaultMaxPauseMs)])

NextPrompt == RunStart \/ TurnWithFlow \/ RunFinish

SpecPrompt == InitPrompt /\ [][NextPrompt]_vars

-----------------------------------------------------------------------------
(* Properties of the turn engine *)

\* C1: turn alternation.  After k completed turns the next speaker is agentA
\* when k is even and agentB when k is odd, and the k-th message of the
\* history is authored by agentA when k is odd and by agentB when k is even.
C1_TurnAlternation ==
    /\ orch.state.currentAgentId = IF orch.state.currentTurn % 2 = 0 THEN AgentA ELSE AgentB
    /\ \A k \in 1..Len(orch.state.messages) :
          orch.state.messages[k].agentId = IF k % 2 = 1 THEN AgentA ELSE AgentB

C1_Witness ==
    /\ orch.state.currentTurn = 3
    /\ Len(orch.state.messages) = 3
    /\ orch.state.currentAgentId = AgentB

\* C2: with infinite mode off, the turn counter never exceeds maxTurns, for
\* every configured maxTurns >= 0.
C2_TurnCounterBounded ==
    ~config.infiniteMode => orch.state.currentTurn <= config.maxTurns

\* C3: with infinite mode off, maxTurns >= 1 and a generation backend that
\* never fails, run() eventually returns with currentTurn = maxTurns, exactly
\* maxTurns messages and isComplete = true.
C3_RunReturns ==
    <>(/\ pc = "returned"
       /\ orch.state.currentTurn = config.maxTurns
       /\ Len(orch.state.messages) = config.maxTurns
       /\ orch.state.isComplete)

C3_Witness ==
    /\ ~config.infiniteMode
    /\ config.maxTurns = MaxTurnsCfg
    /\ ~obs.genFailed
    /\ pc = "returned"
    /\ orch.state.currentTurn = config.maxTurns

\* C4: in infinite mode isComplete is set by a failed generation call and by
\* nothing else, whatever the turn counter, the engagement score and the
\* consecutive-low-engagement counter are; run() ends only through that failure.
C4_InfiniteNeverSelfTerminates ==
    config.infiniteMode =>
        /\ orch.state.isComplete <=> obs.genFailed
        /\ pc \in {"returned", "raised"} => obs.genFailed

C4_Witness ==
    /\ config.infiniteMode
    /\ ~orch.state.isComplete
    /\ orch.state.currentTurn > config.maxTurns
    /\ LowEngagementLogged(orch)

\* C5: a failed generation call is fatal: run() raises, isComplete is true,
\* and no generation call is made afterwards.
C5_GenerationFailureFatal ==
    /\ [](obs.genFailed => (pc = "raised" /\ orch.state.isComplete))
    /\ [][obs.genFailed => obs'.genCalls = obs.genCalls]_vars

C5_Witness ==
    /\ obs.genFailed
    /\ pc = "raised"
    /\ orch.state.currentTurn >= 1
    /\ obs.genCalls = orch.state.currentTurn + 1

\* C6: persistence failures are never fatal: run() raises only for a failed
\* generation, and the ConversationState after every step equals that of the
\* run with the same generations in which persistence never fails.
C6_PersistenceNeverFatal ==
    /\ orch.state = refOrch.state
    /\ pc = "raised" => obs.genFailed

C6_Witness ==
    /\ obs.persistFailed
    /\ orch.conversationId # 0
    /\ pc = "returned"
    /\ orch.state.currentTurn >= 2

\* C7: memory is injected at most once per run: at most one turn's prompt
\* carries the memory hint, that turn is one of the first three, and once the
\* injected flag is set it stays set and past memories are not read again.
C7_MemoryInjectedOnce ==
    /\ [](Cardinality(obs.hintTurns) <= 1 /\ obs.hintTurns \subseteq 1..3)
    /\ [][orch.pastMemoriesInjected =>
            (orch'.pastMemoriesInjected /\ obs'.memQueries = obs.memQueries)]_vars

C7_Witness ==
    /\ orch.pastMemoriesInjected
    /\ obs.hintTurns = {2}
    /\ obs.memQueries = 2
    /\ orch.state.currentTurn >= 4

-----------------------------------------------------------------------------
(* Properties of the plugin hub *)

IsInvoke(k, e) == hubLog[k].ev = e /\ hubLog[k].what = "invoke"

Invoked(e, pid) == \E k \in 1..Len(hubLog) : IsInvoke(k, e) /\ hubLog[k].pid = pid

\* C8: plugin isolation.  Once the dispatch of an event has ended, every
\* plugin that was registered when the event was emitted, is still
\* registered and exposes the hook has been invoked for it, whatever the
\* hooks of the other plugins did.
C8_PluginIsolation ==
    \A e \in 1..Len(events) :
        events[e].status = "done" =>
            \A i \in 1..Len(plugins) :
                (plugins[i].id <= events[e].regs /\ events[e].method \in plugins[i].hooks)
                    => Invoked(e, plugins[i].id)

\* C9 as stated: for one event the hooks are invoked one at a time in
\* registration order, a plugin registered later being invoked only after
\* the hook of each plugin registered earlier has settled.
C9_RegistrationOrder ==
    \A k, l \in 1..Len(hubLog) :
        (k < l /\ hubLog[k].ev = hubLog[l].ev
               /\ hubLog[k].what = "invoke" /\ hubLog[l].what = "invoke")
            => /\ hubLog[k].pid < hubLog[l].pid
               /\ \E m \in (k + 1)..(l - 1) :
                     hubLog[m] = [hubLog[k] EXCEPT !.what = "settle"]

\* C9 as amended: for one event the hooks are invoked one at a time in the
\* iteration order of the plugin map (the order in which the plugin names
\* were first registered), each one only after the previous one has settled.
C9_MapOrder ==
    \A k, l \in 1..Len(hubLog) :
        (k < l /\ hubLog[k].ev = hubLog[l].ev
               /\ hubLog[k].what = "invoke" /\ hubLog[l].what = "invoke")
            => /\ hubLog[k].idx < hubLog[l].idx
               /\ \E m \in (k + 1)..(l - 1) :
                     hubLog[m] = [hubLog[k] EXCEPT !.what = "settle"]

C9_Witness ==
    /\ Len(plugins) = 2
    /\ plugins[1].id > plugins[2].id
    /\ plugins[1].mode = "reject"
    /\ Len(events) = 1
    /\ events[1].status = "done"
    /\ Invoked(1, plugins[1].id)
    /\ Invoked(1, plugins[2].id)

\* C10: notifications form one logical sequence: a plugin that is invoked
\* for two events is invoked for the earlier event first.
C10_EventOrderPerPlugin ==
    \A k, l \in 1..Len(hubLog) :
        (hubLog[k].what = "invoke" /\ hubLog[l].what = "invoke"
            /\ hubLog[k].pid = hubLog[l].pid /\ hubLog[k].ev < hubLog[l].ev)
            => k < l

\* C11: plugin names are unique in the registry: it holds at most one plugin
\* per name, getPlugin(name) is the plugin registered last under that name,
\* and a hook invoked for an event that was dispatched after the holder of a
\* name was registered is a hook of that holder, never of a plugin it replaced.
C11_UniqueNames ==
    /\ [](\A n \in PluginNames : Cardinality(GetPlugin(plugins, n)) <= 1)
    /\ [][regCount' # regCount =>
            \E n \in PluginNames :
                /\ \E q \in GetPlugin(plugins', n) :
                      GetPlugin(plugins', n) = {q} /\ q.id = regCount'
                /\ \A m \in PluginNames \ {n} : GetPlugin(plugins', m) = GetPlugin(plugins, m)]_vars
    /\ [][\A k \in (Len(hubLog) + 1)..Len(hubLog') :
            (hubLog'[k].what = "invoke" /\ events'[hubLog'[k].ev].regs >= plugins[hubLog'[k].idx].id)
                => hubLog'[k].pid = plugins[hubLog'[k].idx].id]_vars

C11_Witness ==
    /\ regCount = 2
    /\ Len(plugins) = 1
    /\ Len(events) = 1
    /\ events[1].regs = 2
    /\ events[1].status = "done"
    /\ Invoked(1, 2)
    /\ ~Invoked(1, 1)

-----------------------------------------------------------------------------
(* Properties of the context window *)

\* the original messages of a managed window, the summary entry left out
Retained(output) == SelectSeq(output, LAMBDA m : m.agentId # SummaryAgent)

HasSummary(output) == \E i \in 1..Len(output) : output[i].agentId = SummaryAgent

\* C12: context window cap.  For every configured cap >= 0 and every message
\* list, the number of original messages retained by manageContextWindow is
\* at most the cap, and they are the most recent ones in their original order.
C12_ContextWindowCap ==
    ctx.called =>
        LET kept == Retained(ctx.output)
        IN  /\ Len(kept) <= ctx.config.maxContextMessages
            /\ Len(kept) <= Len(ctx.input)
            /\ kept = SubSeq(ctx.input, Len(ctx.input) - Len(kept) + 1, Len(ctx.input))

\* C13: the output of manageContextWindow has a summary entry exactly when
\* the input is longer than the cap and summarization is enabled; the summary
\* is then the first entry and the output has cap + 1 entries; an input that
\* is not longer than the cap is returned as it is.
C13_SummaryIffTruncated ==
    ctx.called =>
        LET cap == ctx.config.maxContextMessages
        IN  /\ HasSummary(ctx.output) <=>
                  (Len(ctx.input) > cap /\ ctx.config.enableContextSummarization)
            /\ HasSummary(ctx.output) =>
                  (ctx.output[1].agentId = SummaryAgent /\ Len(ctx.output) = cap + 1)
            /\ Len(ctx.input) <= cap => ctx.output = ctx.input

-----------------------------------------------------------------------------
(* Properties of the topic advisor *)

\* the TopicGuidanceState of the manager
GuidanceState(tm) ==
    [conversationHistory |-> tm.conversationHistory, currentTopics |-> tm.currentTopics,
     topicSwitches |-> tm.topicSwitches, suggestions |-> tm.suggestions,
     lullDetected |-> tm.lullDetected, lastActiveTurn |-> tm.lastActiveTurn]

\* the last k entries of a history holding at least k entries
TrailingWindow(history, k) == SubSeq(history, Len(history) - k + 1, Len(history))

MeanOverlapHigh(window, currentMessage) ==
    LET sum == RatSum([i \in 1..Len(window) |-> WordOverlap(currentMessage, window[i].message)])
    IN  10 * sum.n > 7 * Len(window) * sum.d

\* C15: for every lullThreshold >= 1 and every history holding at least
\* lullThreshold entries, detectLull is true exactly when (a) the last
\* lullThreshold messages and the current one are all shorter than
\* minMessageLength, or (b) the mean word overlap of the current message with
\* the last lullThreshold messages exceeds 0.7.
C15_LullCondition ==
    topicMgr.lull # Undefined =>
        LET k == topicMgr.lullThreshold
            h == topicMgr.conversationHistory
            cur == topicMgr.lull[1].message
        IN  (k >= 1 /\ Len(h) >= k) =>
                LET window == TrailingWindow(h, k)
                    allShort == /\ \A i \in 1..k : TextLength(window[i].message) < topicMgr.minMessageLength
                                /\ TextLength(cur) < topicMgr.minMessageLength
                IN  topicMgr.lull[1].result <=> (allShort \/ MeanOverlapHigh(window, cur))

\* C16: the advisor reports a lull for an analyzed message only if at least
\* lullThreshold entries were in its history before that message: while no
\* more than lullThreshold messages have been analyzed there is no lull, no
\* suggestion and no lull-based guidance.
C16_LullNeedsPriorHistory ==
    (topicMgr.result # Undefined /\ topicMgr.calls <= topicMgr.lullThreshold) =>
        /\ ~topicMgr.lullDetected
        /\ topicMgr.result[1].suggestion = Undefined
        /\ ~topicMgr.result[1].guidance.lullHint

-----------------------------------------------------------------------------
(* Properties of the engagement scorer *)

Min(a, b) == IF a < b THEN a ELSE b

\* the score n/d lies in [0, 1]
InUnit(r) == r.d > 0 /\ 0 <= r.n /\ r.n <= r.d

\* the score x is below the bound t
Below(x, t) == x.n * t.d < t.n * x.d

\* C17: engagement default.  With fewer than 2 messages in the window,
\* calculateMetrics gives diversity = quality = flow = 1.0, depth = 0.5 and
\* overall = 1.0, and shouldIntervene gives the type none.
C17_EngagementDefault ==
    (tracker.last # Undefined /\ Len(tracker.messageHistory) < 2) =>
        /\ tracker.last[1].metrics =
              [messageDiversity |-> [n |-> 1, d |-> 1], responseQuality |-> [n |-> 1, d |-> 1],
               topicFlowSmoothness |-> [n |-> 1, d |-> 1], conversationDepth |-> [n |-> 1, d |-> 2],
               overallEngagement |-> [n |-> 1, d |-> 1]]
        /\ tracker.last[1].op = "shouldIntervene" => tracker.last[1].type = "none"

C17_Witness ==
    /\ tracker.config.windowSize = 1
    /\ Len(tracker.tracked) = 3
    /\ Len(tracker.messageHistory) = 1
    /\ tracker.last # Undefined
    /\ tracker.last[1].op = "shouldIntervene"
    /\ tracker.last[1].type = "none"

\* C18: the engagement window is a bounded FIFO: after n trackMessage calls
\* it holds the last min(n, windowSize) tracked messages in arrival order, so
\* never more than windowSize; the queries leave the window unchanged.
C18_WindowBoundedFifo ==
    /\ [](LET n == Len(tracker.tracked)
              k == Min(n, tracker.config.windowSize)
          IN  /\ Len(tracker.messageHistory) <= tracker.config.windowSize
              /\ tracker.messageHistory = SubSeq(tracker.tracked, n - k + 1, n))
    /\ [][(tracker'.last # Undefined /\ tracker'.last # tracker.last)
            => tracker'.messageHistory = tracker.messageHistory]_vars

C18_Witness ==
    /\ tracker.config.windowSize = 2
    /\ Len(tracker.tracked) = 3
    /\ tracker.tracked[1] # tracker.tracked[2]
    /\ tracker.messageHistory = <<tracker.tracked[2], tracker.tracked[3]>>
    /\ tracker.last # Undefined

\* C19: every topic relevance score returned by detectTopics and each of the
\* four engagement sub-scores and the overall score returned by
\* calculateMetrics lies in [0, 1].
C19_ScoresInUnitInterval ==
    /\ tracker.detection # Undefined =>
          /\ \A i \in 1..Len(tracker.detection[1].detectedTopics) :
                InUnit(tracker.detection[1].detectedTopics[i].relevanceScore)
          /\ InUnit(tracker.detection[1].topicConfidence)
    /\ tracker.last # Undefined =>
          LET metrics == tracker.last[1].metrics
          IN  /\ InUnit(metrics.messageDiversity)
              /\ InUnit(metrics.responseQuality)
              /\ InUnit(metrics.topicFlowSmoothness)
              /\ InUnit(metrics.conversationDepth)
              /\ InUnit(metrics.overallEngagement)

C19_Witness ==
    /\ tracker.detection # Undefined
    /\ tracker.detection[1].topicConfidence = [n |-> 5, d |-> 12]
    /\ tracker.last # Undefined
    /\ Len(tracker.messageHistory) = 2
    /\ Below(tracker.last[1].metrics.overallEngagement, [n |-> 1, d |-> 1])
    /\ tracker.last[1].metrics.responseQuality = [n |-> 13, d |-> 20]

\* C20: shouldIntervene gives the type none exactly when the overall score
\* is not below the low threshold; when it is below, the type is
\* topic_change if flow < 0.3, otherwise variety_injection if diversity < 0.3,
\* otherwise depth_encouragement if depth < 0.3, otherwise topic_change.
C20_InterventionPriority ==
    (tracker.last # Undefined /\ tracker.last[1].op = "shouldIntervene") =>
        LET metrics == tracker.last[1].metrics
            type == tracker.last[1].type
            limit == [n |-> 3, d |-> 10]
            low == Below(metrics.overallEngagement, tracker.config.lowEngagementThreshold)
        IN  /\ type = "none" <=> ~low
            /\ low =>
                  type = IF Below(metrics.topicFlowSmoothness, limit) THEN "topic_change"
                         ELSE IF Below(metrics.messageDiversity, limit) THEN "variety_injection"
                         ELSE IF Below(metrics.conversationDepth, limit) THEN "depth_encouragement"
                         ELSE "topic_change"

C20_Witness ==
    /\ tracker.last # Undefined
    /\ tracker.last[1].op = "shouldIntervene"
    /\ tracker.last[1].type = "variety_injection"
    /\ Below(tracker.last[1].metrics.conversationDepth, [n |-> 3, d |-> 10])

-----------------------------------------------------------------------------
(* Claims C21..C30 *)

\* the rows read back agree with the in-memory history: one row per message,
\* turn numbers 1..k in order, with the message's content and author
SameAsHistory(rows, messages) ==
    /\ Len(rows) = Len(messages)
    /\ \A i \in 1..Len(rows) :
        /\ rows[i].turnNumber = i
        /\ rows[i].len = messages[i].len
        /\ rows[i].agentId = messages[i].agentId

\* C21: in a run whose persistence never fails, after k completed turns
\* getMessages of the run's conversation yields exactly k rows with turn
\* numbers 1..k, in the order and with the content and author of the in-memory
\* history, and the persisted total_turns equals the in-memory turn counter.
C21_MemoryRoundTrip ==
    (config.memoryStore /\ pc \in {"loop", "returned", "raised"} /\ ~obs.persistFailed) =>
        /\ orch.conversationId # 0
        /\ Len(orch.state.messages) = orch.state.currentTurn
        /\ SameAsHistory(GetMessages(store, orch.conversationId), orch.state.messages)
        /\ GetConversation(store, orch.conversationId) # <<>>
        /\ GetConversation(store, orch.conversationId)[1].totalTurns = orch.state.currentTurn

C21_Witness ==
    /\ config.memoryStore
    /\ ~obs.persistFailed
    /\ pc = "returned"
    /\ orch.state.currentTurn = 3
    /\ Len(GetMessages(store, orch.conversationId)) = 3
    /\ GetMessages(store, orch.conversationId)[3].agentId = AgentA

\* C22: after any sequence of analyzeMessage calls the history holds at most
\* 20 entries, which are the most recently analyzed messages in the order of
\* their analysis, and currentTopics holds at most 3 topics with pairwise
\* distinct ids.
C22_RollingHistory ==
    LET h == topicMgr.conversationHistory
        n == Len(feed.analyzed)
        k == Min(n, 20)
        topics == topicMgr.currentTopics
    IN  feed.mode # "idle" =>
            /\ Len(h) = k
            /\ \A i \in 1..k :
                /\ h[i].message = feed.analyzed[n - k + i].message
                /\ h[i].turnNumber = feed.analyzed[n - k + i].turnNumber
            /\ Len(topics) <= 3
            /\ \A i, j \in 1..Len(topics) : topics[i].id = topics[j].id => i = j

C22_Witness ==
    /\ feed.mode = "calls"
    /\ Len(feed.analyzed) = 22
    /\ Len(topicMgr.conversationHistory) = 20
    /\ topicMgr.conversationHistory[1].turnNumber = 3
    /\ Len(topicMgr.currentTopics) = 3
    /\ topicMgr.currentTopics[3].id = "general"

\* C23: the TopicGuidanceState is bounded: the history, the current topics,
\* the accumulated topic switches and the accumulated suggestions never hold
\* more entries than the largest cap of analyzeMessage (20), however many
\* messages were analyzed.
C23_GuidanceStateBounded ==
    /\ Len(topicMgr.conversationHistory) <= HistoryCap
    /\ Len(topicMgr.currentTopics) <= HistoryCap
    /\ Len(topicMgr.topicSwitches) <= HistoryCap
    /\ Len(topicMgr.suggestions) <= HistoryCap

\* C24: in an engine run with a TopicManager every conversation message
\* contributes exactly one history entry: after N turns the history holds the
\* messages of the last min(N, 20) turns, one entry each.
C24_OneEntryPerMessage ==
    LET h == topicMgr.conversationHistory
        k == Min(feed.turns, 20)
    IN  feed.mode \in {"engine", "hub"} =>
            /\ Len(h) = k
            /\ \A i \in 1..Min(k, Len(h)) :
                /\ h[i].turnNumber = feed.turns - k + i
                /\ h[i].message = FeedText(feed, feed.turns - k + i)

\* the call of the given function has been made
Called(op) == probe # Undefined /\ probe.op = op /\ probe.out # Undefined

\* C25: detectTopicSwitch returns none when either detection lacks a dominant
\* topic or both dominant topics have the same id; otherwise it returns the
\* switch from the previous to the new dominant topic, of type natural if the
\* new detection's confidence is > 0.5, suggested if it is > 0.3 and <= 0.5,
\* forced if it is <= 0.3.
C25_TopicSwitchType ==
    Called("detectTopicSwitch") =>
        LET previous == DetectTopics(probe.args.previous)
            current == DetectTopics(probe.args.current)
            confidence == current.topicConfidence
            switch == probe.out[1]
            none == \/ previous.dominantTopic = Undefined
                    \/ current.dominantTopic = Undefined
                    \/ previous.dominantTopic[1].id = current.dominantTopic[1].id
        IN  IF none THEN switch = Undefined
            ELSE /\ switch # Undefined
                 /\ switch[1].fromTopic = previous.dominantTopic[1]
                 /\ switch[1].toTopic = current.dominantTopic[1]
                 /\ switch[1].switchType =
                        IF Below([n |-> 1, d |-> 2], confidence) THEN "natural"
                        ELSE IF Below([n |-> 3, d |-> 10], confidence) THEN "suggested"
                        ELSE "forced"

C25_Witness ==
    /\ Called("detectTopicSwitch")
    /\ probe.out[1] # Undefined
    /\ probe.out[1][1].switchType = "suggested"
    /\ probe.out[1][1].confidence = [n |-> 1, d |-> 2]
    /\ probe.out[1][1].fromTopic.id = "general"

\* the ids of the topics of the last 5 entries of a history
RecentTopicIds(history) ==
    {history[i].topic[1].id :
        i \in {j \in 1..Len(history) : j > Len(history) - 5 /\ history[j].topic # Undefined}}

\* C26: suggestTopic never returns the current dominant topic and only
\* returns a topic aligned with the agent's interests; it returns none exactly
\* when no aligned topic other than the current dominant one exists; and when
\* some eligible topic is absent from the topics of the last 5 history
\* entries, the returned topic is such a topic.
C26_SuggestTopic ==
    Called("suggestTopic") =>
        LET suggestion == probe.out[1]
            current == DetectTopics(probe.args.current).dominantTopic
            eligible == {t \in RelevantTopics(probe.args.agent) :
                            current = Undefined \/ t # current[1].id}
            fresh == eligible \ RecentTopicIds(HistoryOf(probe.args.history))
        IN  /\ suggestion = Undefined <=> eligible = {}
            /\ suggestion # Undefined => suggestion[1] \in eligible
            /\ fresh # {} => suggestion # Undefined /\ suggestion[1] \in fresh

C26_Witness ==
    /\ Called("suggestTopic")
    /\ probe.args.agent = "host"
    /\ probe.args.history = <<FoodMusic, ShortOkUpper>>
    /\ probe.args.current = ShortOkUpper
    /\ probe.out[1] = Some("general")

\* C27: generateTopicGuidance returns none exactly when neither (a lull was
\* detected and a suggestion exists) nor (a topic switch exists and its type
\* is suggested) holds; a natural or forced switch never contributes a hint,
\* and a lull without a suggestion never contributes a hint.
C27_GuidanceNone ==
    Called("generateTopicGuidance") =>
        LET lullPart == probe.args.lullDetected /\ probe.args.suggestion # Undefined
            switchPart == /\ probe.args.topicSwitch # Undefined
                          /\ probe.args.topicSwitch[1].switchType = "suggested"
            guidance == probe.out[1]
        IN  /\ guidance = Undefined <=> ~(lullPart \/ switchPart)
            /\ guidance # Undefined =>
                  /\ ("switch hint" \in {guidance[1][i] : i \in 1..Len(guidance[1])}) <=> switchPart
                  /\ ("lull hint" \in {guidance[1][i] : i \in 1..Len(guidance[1])}) <=> lullPart

C27_Witness ==
    /\ Called("generateTopicGuidance")
    /\ probe.args.lullDetected
    /\ probe.args.suggestion = Undefined
    /\ probe.args.topicSwitch # Undefined
    /\ probe.args.topicSwitch[1].switchType = "forced"
    /\ probe.out[1] = Undefined

\* C28: detectTopics lists exactly the catalog topics with at least one
\* whole-word keyword match, in non-increasing relevance order; a dominant
\* topic exists iff some topic matched, it is the first of the list, and the
\* confidence is its relevance, or 0 when nothing matched; the sentiment is
\* positive or negative only when that word count strictly exceeds the other,
\* neutral otherwise.
C28_DetectTopics ==
    Called("detectTopics") =>
        LET detection == probe.out[1]
            listed == detection.detectedTopics
            words == SplitWords(probe.args.message)
            matching == {TopicIds[t] : t \in {u \in 1..Len(TopicIds) :
                            \E i \in 1..Len(words) : TopicIds[u] \in KeywordTopics(words[i])}}
            positive == Cardinality({i \in 1..Len(words) : words[i] \in PositiveWords})
            negative == Cardinality({i \in 1..Len(words) : words[i] \in NegativeWords})
            sentiment == detection.messageAnalysis.sentiment
        IN  /\ {listed[i].id : i \in 1..Len(listed)} = matching
            /\ Len(listed) = Cardinality(matching)
            /\ \A i \in 1..Len(listed) - 1 :
                  ~Below(listed[i].relevanceScore, listed[i + 1].relevanceScore)
            /\ detection.dominantTopic # Undefined <=> matching # {}
            /\ detection.dominantTopic # Undefined =>
                  /\ detection.dominantTopic[1] = listed[1]
                  /\ detection.topicConfidence = listed[1].relevanceScore
            /\ detection.dominantTopic = Undefined => detection.topicConfidence = [n |-> 0, d |-> 1]
            /\ sentiment = "positive" <=> positive > negative
            /\ sentiment = "negative" <=> negative > positive
            /\ sentiment = "neutral" <=> positive = negative

C28_Witness ==
    /\ Called("detectTopics")
    /\ probe.args.message = Mixed30
    /\ Len(probe.out[1].detectedTopics) = 2
    /\ probe.out[1].dominantTopic # Undefined
    /\ probe.out[1].dominantTopic[1].id = "travel"
    /\ probe.out[1].topicConfidence = [n |-> 2, d |-> 3]


\* C29: the beat FlowManager.analyzeMessage assigns is that of the first rule
\* the message matches, the rules being taken in the order question, story,
\* debate, deep dive, acknowledgment, casual, and unknown when none matches:
\* a message matching an earlier rule is never classified by a later one.
C29_BeatPrecedence ==
    flowMgr.analyzed # Undefined =>
        \E content \in {flowMgr.analyzed[1]}, beat \in {flowMgr.state.currentBeat} :
            /\ IsQuestion(content) => beat = "question_answer"
            /\ (~IsQuestion(content) /\ IsStory(content)) => beat = "story_listening"
            /\ (~IsQuestion(content) /\ ~IsStory(content) /\ IsDebate(content))
                   => beat = "debate_discussion"
            /\ (~IsQuestion(content) /\ ~IsStory(content) /\ ~IsDebate(content)
                    /\ IsDeepDive(content)) => beat = "deep_dive"
            /\ (~IsQuestion(content) /\ ~IsStory(content) /\ ~IsDebate(content)
                    /\ ~IsDeepDive(content) /\ IsAcknowledgment(content))
                   => beat = "acknowledgment"
            /\ (~IsQuestion(content) /\ ~IsStory(content) /\ ~IsDebate(content)
                    /\ ~IsDeepDive(content) /\ ~IsAcknowledgment(content)
                    /\ IsCasual(content)) => beat = "casual_chat"
            /\ (~IsQuestion(content) /\ ~IsStory(content) /\ ~IsDebate(content)
                    /\ ~IsDeepDive(content) /\ ~IsAcknowledgment(content)
                    /\ ~IsCasual(content)) => beat = "unknown"

\* a message with a story cue and a question cue was classified as a question
C29_Witness ==
    /\ flowMgr.analyzed = Some(<<"remember", "why?">>)
    /\ IsStory(<<"remember", "why?">>)
    /\ flowMgr.state.currentBeat = "question_answer"

-----------------------------------------------------------------------------
(* Claims C31..C40 *)

\* the beats detectBeat returns, out of the twelve of ConversationBeat
DetectedBeats ==
    {"question_answer", "story_listening", "debate_discussion", "deep_dive",
     "acknowledgment", "casual_chat", "unknown"}

\* C39: in every reachable FlowState the current beat is one of
\* question_answer, story_listening, debate_discussion, deep_dive,
\* acknowledgment, casual_chat or unknown, and so are the recent beats; the
\* mood is never light; hence shouldPause selects the probability 0.6 for
\* the deep_dive beat only.
C39_ReachableFlowState ==
    /\ flowMgr.state.currentBeat \in DetectedBeats
    /\ \A i \in 1..Len(flowMgr.state.recentBeats) : flowMgr.state.recentBeats[i] \in DetectedBeats
    /\ flowMgr.state.mood \in {"serious", "playful", "thoughtful", "neutral"}
    /\ PauseProbability(flowMgr.state.currentBeat) = Rat(3, 5)
           => flowMgr.state.currentBeat = "deep_dive"

\* a deep-dive message was analyzed and shouldPause, called with pauses
\* enabled, returned a pause
C39_Witness ==
    /\ flowMgr.analyzed = Some(<<"ok", "explore">>)
    /\ flowMgr.state.currentBeat = "deep_dive"
    /\ PauseProbability(flowMgr.state.currentBeat) = Rat(3, 5)
    /\ flowMgr.config.enablePauses
    /\ flowMgr.last # Undefined
    /\ flowMgr.last # Some(Undefined)


\* the history part of a request: its messages taken from the conversation
HistoryPart(request) == SelectSeq(request, LAMBDA m : m.kind = "history")

\* the context blocks of a request
ContextBlocks(request) == SelectSeq(request, LAMBDA m : m.kind = "context")

\* the parts of the context blocks of a request
PartsOf(request) ==
    UNION {{request[i].parts[j] : j \in 1..Len(request[i].parts)} : i \in 1..Len(request)}

\* the speaker of the turn of the last generation request
RequestSpeaker ==
    IF obs.genFailed THEN orch.state.currentAgentId
    ELSE orch.state.messages[obs.genCalls].agentId

\* C31: in the generation request of turn n the history part holds all n-1
\* earlier messages in order, none dropped or replaced, each with role
\* assistant exactly when the current speaker wrote it and user otherwise;
\* for n >= 2 the roles of the history alternate and its last message has
\* role user.
C31_RequestHistory ==
    obs.request # Undefined =>
        \E n \in {obs.genCalls}, request \in {obs.request[1]} :
            \E history \in {HistoryPart(request)} :
                /\ Len(history) = n - 1
                /\ \A i \in 1..(n - 1) :
                      /\ request[i].kind = "history"
                      /\ history[i].len = orch.state.messages[i].len
                      /\ history[i].role = "assistant"
                            <=> orch.state.messages[i].agentId = RequestSpeaker
                      /\ history[i].role \in {"assistant", "user"}
                /\ n >= 2 =>
                      /\ history[n - 1].role = "user"
                      /\ \A i \in 1..(n - 2) : history[i].role # history[i + 1].role

\* the request of turn 4 carried three history messages
C31_Witness ==
    /\ obs.genCalls = 4
    /\ obs.request # Undefined
    /\ Len(HistoryPart(obs.request[1])) = 3
    /\ HistoryPart(obs.request[1])[1].role = "user"
    /\ HistoryPart(obs.request[1])[2].role = "assistant"
    /\ HistoryPart(obs.request[1])[3].role = "user"

\* C38: on the opening turn the messages of the generation request are exactly
\* one user message, the context block carrying the setting of the opening;
\* the starter message is never sent, and on every later turn no context
\* block carries the setting.
C38_OpeningRequest ==
    obs.request # Undefined =>
        \E request \in {obs.request[1]} :
            /\ \A i \in 1..Len(request) : request[i].kind # "starter"
            /\ obs.genCalls = 1 =>
                  /\ Len(request) = 1
                  /\ request[1].role = "user"
                  /\ request[1].kind = "context"
                  /\ "setting" \in PartsOf(request)
            /\ obs.genCalls > 1 => "setting" \notin PartsOf(request)

\* the opening request: one context block with the setting and the memories
C38_Witness ==
    /\ obs.genCalls = 1
    /\ obs.request = Some(<<[role |-> "user", kind |-> "context", len |-> 0,
                             parts |-> <<"setting", "memory">>]>>)


\* the calls of the last turn, as a set
CallsMade == {obs.calls[i] : i \in 1..Len(obs.calls)}

\* C34: with memory reuse enabled, once the retrievals of the first three
\* turns have all come back empty, the injected flag stays false for the rest
\* of the run, every later turn attempts a retrieval, and what a later turn
\* retrieves is in no prompt.
C34_LateMemoriesUnused ==
    (config.usePastMemories /\ obs.genCalls >= EarlyTurnLimit /\ obs.hintTurns \cap 1..EarlyTurnLimit = {}) =>
        /\ ~orch.pastMemoriesInjected
        /\ obs.hintTurns = {}
        /\ obs.genCalls > EarlyTurnLimit =>
              /\ CallsMade \cap {"retrieveMemories", "retrievePastMemories"} # {}
              /\ QueriesStore(config) => obs.memQueries = obs.genCalls
              /\ "memory" \notin PartsOf(obs.request[1])

\* the fifth turn retrieved two memories after four turns without any
C34_Witness ==
    /\ config.usePastMemories
    /\ obs.genCalls = 5
    /\ obs.hintTurns = {}
    /\ obs.retrieved = 2
    /\ ~orch.pastMemoriesInjected
    /\ obs.memQueries = 5


\* the hooks dispatched in the last turn, as a set
HooksDispatched == {obs.hooks[i] : i \in 1..Len(obs.hooks)}

\* C33: when the generation call of a turn fails, the messages, the turn
\* counter and the next speaker are as they were at the start of the turn
\* (only isComplete changes), and for that turn no message is saved, no
\* conversation row is updated, no message is tracked and neither the
\* message-generated nor the state-changed notification is dispatched.
C33_FailedTurnFrame ==
    [][(obs'.genFailed /\ ~obs.genFailed) =>
          /\ orch'.state = [orch.state EXCEPT !.isComplete = TRUE]
          /\ store' = store
          /\ \A i \in 1..Len(obs'.calls) :
                obs'.calls[i] \notin {"trackMessage", "saveMessage", "updateConversation",
                                      "logMessageGenerated", "saveConversationState"}
          /\ \A i \in 1..Len(obs'.hooks) :
                obs'.hooks[i] \notin {"onMessageGenerated", "onConversationStateChanged"}]_vars

\* the third turn of an engine with a hub and a store failed after two saved turns
C33_Witness ==
    /\ obs.genFailed
    /\ obs.genCalls = 3
    /\ config.cipher
    /\ Len(orch.state.messages) = 2
    /\ orch.state.currentTurn = 2
    /\ orch.state.isComplete
    /\ Len(store.messages) = 2
    /\ "onFlowManaged" \in HooksDispatched
    /\ "generate" \in CallsMade

\* C40: the state-changed notification of a turn is dispatched only if a
\* persisted conversation exists and the updateConversation call of the turn
\* succeeded: without a store, after a failed createConversation or after a
\* failing update of the turn, no plugin is told of the new state although
\* the turn counter advanced.
C40_StateChangedNeedsUpdate ==
    (obs.genCalls >= 1 /\ ~obs.genFailed) =>
        /\ orch.state.currentTurn = obs.genCalls
        /\ "onConversationStateChanged" \in HooksDispatched =>
              /\ config.memoryStore
              /\ orch.conversationId # 0
              /\ ~obs.updateFailed
              /\ "updateConversation" \in CallsMade
        /\ (~config.memoryStore \/ orch.conversationId = 0 \/ obs.updateFailed) =>
              "onConversationStateChanged" \notin HooksDispatched

\* the update of the second turn failed: the hub was told of the message, not of the state
C40_Witness ==
    /\ config.cipher
    /\ config.memoryStore
    /\ orch.conversationId # 0
    /\ obs.updateFailed
    /\ ~obs.genFailed
    /\ orch.state.currentTurn = 2
    /\ "onMessageGenerated" \in HooksDispatched
    /\ "onConversationStateChanged" \notin HooksDispatched

C32_FlowHintInBlock ==
    (probe # Undefined /\ obs.request # Undefined /\ probe.result.flowContext # Undefined) =>
        \E i \in 1..Len(obs.request[1]) :
            /\ obs.request[1][i].kind = "context"
            /\ "flow" \in {obs.request[1][i].parts[j] : j \in 1..Len(obs.request[1][i].parts)}


\* C35: in an engine run with a TopicManager the analysis of the previous
\* message made before the generation never detects a topic switch and
\* records none, and the guidance it gives never contains the switch hint.
C35_NoSwitchBeforeGeneration ==
    (feed.mode \in {"engine", "hub"} /\ feed.guided # Undefined) =>
        /\ feed.guided[1].result.topicSwitch = Undefined
        /\ feed.guided[1].switchesAfter = feed.guided[1].switchesBefore
        /\ ~feed.guided[1].result.guidance.switchHint

\* a turn whose guidance holds the suggestion made on a lull, in a run whose
\* analyses of the generated messages have recorded switches
C35_Witness ==
    /\ feed.mode = "engine"
    /\ feed.guided # Undefined
    /\ feed.guided[1].result.guidance.lullHint
    /\ feed.guided[1].result.suggestion # Undefined
    /\ Len(topicMgr.topicSwitches) > feed.guided[1].switchesAfter


\* C37: registerPlugin returns with the promise of the plugin's initialize
\* still pending, no plugin ever leaves the registry (one whose initialize
\* failed included), and a dispatch invokes the hook of the first plugin of
\* the registry whatever has become of its initialize.
C37_InitializeNotAwaited ==
    [][/\ regCount' = regCount + 1 =>
            \E i \in 1..Len(plugins') :
                plugins'[i].id = regCount' /\ plugins'[i].initialized = "pending"
       /\ \A i \in 1..Len(plugins) : \E j \in 1..Len(plugins') : plugins'[j].name = plugins[i].name
       /\ (Len(events') > Len(events) /\ plugins # <<>>) =>
            \E k \in (Len(hubLog) + 1)..Len(hubLog') :
                hubLog'[k] = [ev |-> Len(events'), pid |-> plugins[1].id, idx |-> 1,
                              what |-> "invoke"]]_vars

\* a hook of one plugin has been invoked while its initialize is pending and
\* a hook of another after its initialize failed
C37_Witness ==
    \E i, j \in 1..Len(plugins) :
        /\ plugins[i].initialized = "pending"
        /\ \E k \in 1..Len(hubLog) : hubLog[k].what = "invoke" /\ hubLog[k].pid = plugins[i].id
        /\ plugins[j].initialized = "rejected"
        /\ \E k, l \in 1..Len(hubLog) :
              /\ k < l
              /\ hubLog[k].what = "initialization failed" /\ hubLog[k].pid = plugins[j].id
              /\ hubLog[l].what = "invoke" /\ hubLog[l].pid = plugins[j].id

=============================================================================
